---- MODULE Spec2Model ----
(***************************************************************************)
(* A model of the bytecode execution core in src/src/vm.c (execBytecode    *)
(* and its static helpers).                                                *)
(*                                                                         *)
(* A Value is a 64-bit word.  TLC's integers are 32 bits wide, so a word   *)
(* is kept as four 16-bit limbs <<l3, l2, l1, l0>>, most significant       *)
(* first: the word 0x7ffc000700000005 is <<32764, 7, 0, 5>>.  The masks    *)
(* and the VALUE_* macros are computed on the limbs bit for bit.           *)
(*                                                                         *)
(* The instruction buffer is produced by the compiler, which is outside    *)
(* the core.  The model leaves its content free: every dispatch draws the  *)
(* bytes of the instruction at pc from a bounded menu of encodings.  The   *)
(* variable inst keeps those bytes only while the loop has written to the  *)
(* instruction at pc and dispatches it again without moving pc (inline     *)
(* cache deoptimisation); then the next dispatch reads the rewritten       *)
(* bytes.                                                                  *)
(***************************************************************************)
EXTENDS Integers, Sequences, FiniteSets, TLC

VARIABLES
    pc,           \* register Inst* pc, as a byte address
    stack,        \* register Value* stack, as an index into regs
    regs,         \* the value stack vm->stackPtr[0 .. StackLen-1]
    inst,         \* bytes at pc left by self-modification, <<>> when free
    res,          \* "RUNNING" inside the loop, else the ResultCode returned
    curPc,        \* vm->curPc
    curStack,     \* vm->curStack
    panicType,    \* vm->curFiber->panicType
    panicMsg,     \* the string vm->curFiber->panicPayload points to
    rc,           \* obj->head.rc of every heap object
    freeCount,    \* number of zFreeObject calls made on every heap object
    frames,       \* history: the calls whose frames have not returned
    last,         \* history: the instruction dispatched last and the state before it
    intIn,        \* value layer: an int32 n
    intVal,       \* value layer: VALUE_INTEGER(n) / an operand word
    intOut,       \* value layer: VALUE_AS_INTEGER(intVal)
    forI,         \* the uint8_t i of the for loop of the handler in progress, NoIndex outside one
    instBuf,      \* the bytes at vm->instPtr, <<>> while the buffer's content is left free
    fields,       \* the Values from &obj->firstValue on of every heap object
    tryStack,     \* vm->tryStack: the TryFrames from buf on, len and cap
    curFiber,     \* vm->curFiber: 0 is &vm->mainFiber, o > 0 the fiber in heap object o
    fibers,       \* the Fiber in every heap object that holds one
    varSyms,      \* the values of vm->varSyms.buf[symId]
    handlers,     \* history: the try-frames pushed and not yet popped or consumed
    seen          \* history: the loop variables at every entry of a range loop's body

loopVars  == <<pc, stack, regs, inst, res, curPc, curStack>>
panicVars == <<panicType, panicMsg>>
heapVars  == <<rc, freeCount>>
histVars  == <<frames, last>>
valueVars == <<intIn, intVal, intOut, forI>>
progVars  == <<instBuf, fields>>
tryVars   == <<tryStack, handlers>>
coVars    == <<curFiber, fibers, varSyms>>
fiberVars == <<tryVars, coVars, seen>>
vars == <<loopVars, panicVars, heapVars, histVars, valueVars, progVars, fiberVars>>

(***************************************************************************)
(* Bounds of the model.                                                    *)
(***************************************************************************)
StackLen == 14      \* Value slots between vm->stackPtr and vm->stackEndPtr
NumObjs  == 2       \* heap objects
MaxNum   == 4       \* |n| of the numbers the arithmetic opcodes may produce
MaxPc    == 28      \* byte offsets of instructions lie in 0 .. MaxPc
MaxSemaType == 17   \* sema type ids lie in 0 .. MaxSemaType
MaxSeen  == 4       \* entries of a loop body that the history seen records
MaxRc    == 3       \* the opcodes that retain in a loop stop at this count

(***************************************************************************)
(* 16-bit limbs and 64-bit words.                                          *)
(***************************************************************************)
RECURSIVE BitAnd(_, _)
BitAnd(a, b) ==
    IF a = 0 \/ b = 0 THEN 0
    ELSE (a % 2) * (b % 2) + 2 * BitAnd(a \div 2, b \div 2)

RECURSIVE BitOr(_, _)
BitOr(a, b) ==
    IF a = 0 THEN b
    ELSE IF b = 0 THEN a
    ELSE (IF a % 2 = 1 \/ b % 2 = 1 THEN 1 ELSE 0) + 2 * BitOr(a \div 2, b \div 2)

RECURSIVE BitXor(_, _)
BitXor(a, b) ==
    IF a = 0 THEN b
    ELSE IF b = 0 THEN a
    ELSE ((a + b) % 2) + 2 * BitXor(a \div 2, b \div 2)

WordAnd(v, w) == <<BitAnd(v[1], w[1]), BitAnd(v[2], w[2]), BitAnd(v[3], w[3]), BitAnd(v[4], w[4])>>
WordOr(v, w)  == <<BitOr(v[1], w[1]), BitOr(v[2], w[2]), BitOr(v[3], w[3]), BitOr(v[4], w[4])>>
WordXor(v, w) == <<BitXor(v[1], w[1]), BitXor(v[2], w[2]), BitXor(v[3], w[3]), BitXor(v[4], w[4])>>

\* A small unsigned number as a word.
WordOfNat(n) == <<0, 0, n \div 65536, n % 65536>>

\* An int32 converted to uint64_t: C sign-extends it.
WordOfInt32(n) ==
    IF n >= 0 THEN <<0, 0, n \div 65536, n % 65536>>
    ELSE <<65535, 65535, 32768 + ((n + 1073741824 + 1073741824) \div 65536),
           (n + 1073741824 + 1073741824) % 65536>>

\* (int32_t)(w & 0xffffffff)
Int32OfWord(w) ==
    IF w[3] >= 32768 THEN (w[3] - 65536) * 65536 + w[4]
    ELSE w[3] * 65536 + w[4]

(***************************************************************************)
(* Masks and tags, vm.c lines 14-40.                                       *)
(***************************************************************************)
SIGN_MASK         == <<32768, 0, 0, 0>>
TAGGED_VALUE_MASK == <<32764, 0, 0, 0>>
TAG_MASK          == 7
TAG_NONE          == 0
TAG_BOOLEAN       == 1
TAG_ERROR         == 2
TAG_STATIC_ASTRING == 3
TAG_INTEGER       == 7
TagWord(tag)      == <<0, tag, 0, 0>>
TAGGED_PRIMITIVE_MASK == WordOr(TAGGED_VALUE_MASK, TagWord(TAG_MASK))
INTEGER_MASK      == WordOr(TAGGED_VALUE_MASK, TagWord(TAG_INTEGER))
BOOLEAN_MASK      == WordOr(TAGGED_VALUE_MASK, TagWord(TAG_BOOLEAN))
FALSE_MASK        == BOOLEAN_MASK
TRUE_BIT_MASK     == <<0, 0, 0, 1>>
TRUE_MASK         == WordOr(BOOLEAN_MASK, TRUE_BIT_MASK)
NONE_MASK         == WordOr(TAGGED_VALUE_MASK, TagWord(TAG_NONE))
POINTER_MASK      == WordOr(TAGGED_VALUE_MASK, SIGN_MASK)
ERROR_MASK        == WordOr(TAGGED_VALUE_MASK, TagWord(TAG_ERROR))
STATIC_ASTRING_MASK == WordOr(TAGGED_VALUE_MASK, TagWord(TAG_STATIC_ASTRING))

(***************************************************************************)
(* Value constructors and operations, vm.c lines 42-75.                    *)
(***************************************************************************)
VALUE_INTEGER(n)    == WordOr(INTEGER_MASK, WordOfInt32(n))
\* Variant: the mask keeps 16 bits.
VALUE_AS_INTEGER_low16(v) == v[4]
VALUE_AS_INTEGER(v) == Int32OfWord(v)
VALUE_BOOLEAN(b)    == IF b THEN TRUE_MASK ELSE FALSE_MASK
VALUE_NONE          == NONE_MASK
VALUE_TRUE          == TRUE_MASK
VALUE_FALSE         == FALSE_MASK
VALUE_INTERRUPT     == WordOr(ERROR_MASK, <<0, 0, 0, 65535>>)
VALUE_IS_POINTER(v) == WordAnd(v, POINTER_MASK) = POINTER_MASK
VALUE_IS_NUMBER(v)  == WordAnd(v, TAGGED_VALUE_MASK) # TAGGED_VALUE_MASK
VALUE_IS_BOOLEAN(v) == WordAnd(v, WordOr(TAGGED_PRIMITIVE_MASK, SIGN_MASK)) = BOOLEAN_MASK
VALUE_IS_ERROR(v)   == WordAnd(v, WordOr(TAGGED_PRIMITIVE_MASK, SIGN_MASK)) = ERROR_MASK
VALUE_IS_NONE(v)    == v = NONE_MASK
VALUE_BOTH_NUMBERS(v1, v2) == VALUE_IS_NUMBER(v1) /\ VALUE_IS_NUMBER(v2)
VALUE_GET_TAG(v)    == BitAnd(v[2], TAG_MASK)

(***************************************************************************)
(* Numbers.  A double is kept as sign and magnitude, [neg, mag]; mag = -1  *)
(* stands for every double the model does not compute with (an infinity, a *)
(* NaN, a fraction produced by an operation).  The sign of zero is kept:   *)
(* -0.0 and 0.0 are equal numbers with different words.                    *)
(*                                                                         *)
(* VALUE_NUMBER(d) is the IEEE-754 binary64 encoding of d: bit 63 the      *)
(* sign, bits 62..52 the exponent + 1023, bits 51..0 the fraction.  The    *)
(* model encodes integers of magnitude up to 2^31 and decodes every double *)
(* of magnitude below 2^31 (with a fraction of up to 36 bits).             *)
(***************************************************************************)
RECURSIVE Pow2(_)
Pow2(e) == IF e <= 0 THEN 1 ELSE 2 * Pow2(e - 1)

RECURSIVE Log2(_)
Log2(a) == IF a <= 1 THEN 0 ELSE 1 + Log2(a \div 2)

Abs(n) == IF n < 0 THEN 0 - n ELSE n

INT32_MAX == 2147483647
INT32_MIN == (0 - 2147483647) - 1

Dbl(neg, mag) == [neg |-> neg, mag |-> mag]
Outside == Dbl(FALSE, 0 - 1)
NegZero == Dbl(TRUE, 0)
\* (double)n for an int32 n other than INT32_MIN
Num(n) == Dbl(n < 0, Abs(n))
\* The integer a double holds (the sign of zero dropped).
NumVal(d) == IF d.neg THEN 0 - d.mag ELSE d.mag

NoWord == <<>>
\* No for loop of a handler is in progress: a value no uint8_t takes.
NoIndex == 0 - 1
MinInt32Word == <<49632, 0, 0, 0>>      \* (double)INT32_MIN = -2^31 = 0xC1E0000000000000

\* VALUE_NUMBER(d), vm.c line 46
VALUE_NUMBER(d) ==
    IF d.mag < 0 THEN NoWord
    ELSE IF d.mag = 0 THEN <<(IF d.neg THEN 32768 ELSE 0), 0, 0, 0>>
    ELSE LET a    == d.mag
             e    == Log2(a)
             r    == a - Pow2(e)
             hi   == IF e <= 20 THEN r * Pow2(20 - e) ELSE r \div Pow2(e - 20)
             lo   == IF e <= 20 THEN 0 ELSE (r % Pow2(e - 20)) * Pow2(36 - e)
         IN  <<(IF d.neg THEN 32768 ELSE 0) + (1023 + e) * 16 + hi \div 65536,
               hi % 65536, lo, 0>>

\* VALUE_NUMBER((double)res) for an int32_t res, vm.c lines 1737, 1749, ...
NumberOfInt32(n) == IF n = INT32_MIN THEN MinInt32Word ELSE VALUE_NUMBER(Num(n))

DoubleSign(v) == v[1] \div 32768
DoubleExp(v)  == ((v[1] % 32768) \div 16) - 1023
DoubleFrac(v) == (v[1] % 16) * 65536 + v[2]       \* the top 20 fraction bits

\* The double is one that (int32_t) can convert: it truncates into int32.
DoubleInInt32(v) == DoubleExp(v) <= 30 \/ v = MinInt32Word

\* (int32_t)d for a double that truncates into int32: C truncates toward zero.
DoubleTrunc(v) ==
    IF v = MinInt32Word THEN INT32_MIN
    ELSE LET e   == DoubleExp(v)
             mag == IF e < 0 THEN 0
                    ELSE IF e <= 20 THEN Pow2(e) + DoubleFrac(v) \div Pow2(20 - e)
                    ELSE Pow2(e) + DoubleFrac(v) * Pow2(e - 20) + v[3] \div Pow2(36 - e)
         IN  IF DoubleSign(v) = 1 THEN 0 - mag ELSE mag

\* The double holds an integer of magnitude below 2^21.
DoubleIsInt(v) ==
    \/ v = <<0, 0, 0, 0>>
    \/ v = <<32768, 0, 0, 0>>
    \/ /\ v[3] = 0 /\ v[4] = 0
       /\ DoubleExp(v) >= 0 /\ DoubleExp(v) <= 20
       /\ DoubleFrac(v) % Pow2(20 - DoubleExp(v)) = 0

\* VALUE_AS_NUMBER(v), vm.c line 60
VALUE_AS_NUMBER(v) ==
    IF DoubleIsInt(v) THEN Dbl(DoubleSign(v) = 1, Abs(DoubleTrunc(v))) ELSE Outside

\* The outcomes of a conversion or shift whose behaviour C leaves undefined.
UndefinedInt32 == {INT32_MIN, 0, INT32_MAX}

\* Variant: the conversion rounds to the nearest integer.
VALUE_AS_NUMBER_TO_INT_rounds(v) ==
    IF DoubleInInt32(v)
    THEN LET e    == DoubleExp(v)
             half == IF e = 0 - 1 THEN 1
                     ELSE IF e >= 0 /\ e <= 19 THEN (DoubleFrac(v) \div Pow2(19 - e)) % 2
                     ELSE 0
         IN  {DoubleTrunc(v) + (IF DoubleSign(v) = 1 THEN 0 - half ELSE half)}
    ELSE UndefinedInt32

\* VALUE_AS_NUMBER_TO_INT(v), vm.c line 61: the set of outcomes.  Converting a
\* double that does not truncate into int32 is undefined.
VALUE_AS_NUMBER_TO_INT(v) ==
    IF DoubleInInt32(v) THEN {DoubleTrunc(v)} ELSE UndefinedInt32

(***************************************************************************)
(* Double arithmetic on the doubles that hold integers (round to nearest). *)
(***************************************************************************)
IsOutside(x, y) == x.mag < 0 \/ y.mag < 0
IsOdd(n) == n % 2 = 1

RECURSIVE IntPow(_, _)
IntPow(b, e) == IF e <= 0 THEN 1 ELSE b * IntPow(b, e - 1)

\* -x: the sign bit flips
DNeg(x) == IF x.mag < 0 THEN Outside ELSE Dbl(~x.neg, x.mag)

\* x + y: an exact zero sum is -0 only when both operands are -0
DAdd(x, y) ==
    IF IsOutside(x, y) THEN Outside
    ELSE LET sum == NumVal(x) + NumVal(y)
         IN  IF sum = 0 THEN Dbl(x.neg /\ y.neg, 0) ELSE Num(sum)

\* x - y
DSub(x, y) == DAdd(x, DNeg(y))

\* x * y
DMul(x, y) ==
    IF IsOutside(x, y) THEN Outside ELSE Dbl(x.neg # y.neg, x.mag * y.mag)

\* x / y: x / 0 is an infinity or a NaN, an inexact quotient a fraction
DDiv(x, y) ==
    IF IsOutside(x, y) \/ y.mag = 0 THEN Outside
    ELSE IF x.mag % y.mag # 0 THEN Outside
    ELSE Dbl(x.neg # y.neg, x.mag \div y.mag)

\* pow(x, y) of libm
DPow(x, y) ==
    IF IsOutside(x, y) THEN Outside
    ELSE IF y.mag = 0 THEN Num(1)
    ELSE IF ~y.neg THEN Dbl(x.neg /\ IsOdd(y.mag), IntPow(x.mag, y.mag))
    ELSE IF x.mag = 1 THEN Dbl(x.neg /\ IsOdd(y.mag), 1)
    ELSE Outside

\* fmod(x, y) of libm: the remainder has the sign of x; fmod(x, 0) is a NaN
DMod(x, y) ==
    IF IsOutside(x, y) \/ y.mag = 0 THEN Outside
    ELSE Dbl(x.neg, x.mag % y.mag)

\* x < y
DLess(x, y) == NumVal(x) < NumVal(y)

(***************************************************************************)
(* Heap objects.  Object o lives at address ObjAddr(o); its header holds   *)
(* typeId and rc.  rc is a uint32_t: the model keeps its int32 reading, so *)
(* 0 - 1 is -1 (0xffffffff).                                               *)
(***************************************************************************)
Objs == 1 .. NumObjs
ObjAddr(o) == 8 * o

\* VALUE_PTR(ptr), vm.c line 53
VALUE_PTR(o) == WordOr(POINTER_MASK, WordOfNat(ObjAddr(o)))

\* VALUE_AS_HEAPOBJECT(v), vm.c line 58: v & ~POINTER_MASK
VALUE_AS_HEAPOBJECT(v) == (BitAnd(v[1], 3) * 65536 + v[4]) \div 8

\* obj->head.typeId: the model's objects are user objects of distinct types
HeadTypeId(o) == 100 + o

Heap == [rc |-> rc, freeCount |-> freeCount]

\* The value can be dereferenced: not a pointer, or a pointer to an object
\* that has not been freed.  The use of a freed object is undefined.
Live(h, v) ==
    VALUE_IS_POINTER(v) =>
        /\ VALUE_AS_HEAPOBJECT(v) \in Objs
        /\ h.freeCount[VALUE_AS_HEAPOBJECT(v)] = 0

\* zFreeObject(vm, obj): the finalizer; the model counts its invocations
zFreeObject(h, o) == [h EXCEPT !.freeCount[o] = @ + 1]

\* Variant: the reference count is decremented twice.
release_twice(h, val) ==
    IF VALUE_IS_POINTER(val)
    THEN LET obj == VALUE_AS_HEAPOBJECT(val)
             h1  == [h EXCEPT !.rc[obj] = @ - 2]
         IN  IF h1.rc[obj] = 0 THEN zFreeObject(h1, obj) ELSE h1
    ELSE h

\* release(vm, val), vm.c lines 119-148
release(h, val) ==
    IF VALUE_IS_POINTER(val)
    THEN LET obj == VALUE_AS_HEAPOBJECT(val)
             h1  == [h EXCEPT !.rc[obj] = @ - 1]
         IN  IF h1.rc[obj] = 0 THEN zFreeObject(h1, obj) ELSE h1
    ELSE h

\* retain(vm, val), vm.c lines 191-210
retain(h, val) ==
    IF VALUE_IS_POINTER(val)
    THEN [h EXCEPT !.rc[VALUE_AS_HEAPOBJECT(val)] = @ + 1]
    ELSE h

\* getPrimitiveTypeId(val), vm.c lines 220-226
TYPE_NUMBER == 8
getPrimitiveTypeId(val) ==
    IF VALUE_IS_NUMBER(val) THEN TYPE_NUMBER ELSE VALUE_GET_TAG(val)

\* getTypeId(val), vm.c lines 228-234
getTypeId(val) ==
    IF VALUE_IS_POINTER(val) THEN HeadTypeId(VALUE_AS_HEAPOBJECT(val))
    ELSE getPrimitiveTypeId(val)

(***************************************************************************)
(* Pointers kept in value slots as raw machine words.  The instruction     *)
(* buffer starts at address instPtr, the value stack at stackPtr; a Value  *)
(* is 8 bytes.                                                             *)
(***************************************************************************)
instPtr  == 256
stackPtr == 1024
stackEndPtr == StackLen

\* Variant: the word is the address of the byte after p.
PcWord_offByOne(p) == WordOfNat(p + 1)
PcWord(p)      == WordOfNat(p)                      \* (uintptr_t)pc
WordPc(w)      == w[3] * 65536 + w[4]               \* (Inst*)word
StackWord(sp)  == WordOfNat(stackPtr + 8 * sp)      \* (uintptr_t)stack
WordStack(w)   == (w[3] * 65536 + w[4] - stackPtr) \div 8   \* (Value*)word

\* The word holds an address of the value stack / of the instruction buffer.
IsStackWord(w) ==
    /\ w[1] = 0 /\ w[2] = 0 /\ w[3] = 0
    /\ w[4] >= stackPtr /\ (w[4] - stackPtr) % 8 = 0
    /\ (w[4] - stackPtr) \div 8 < StackLen
IsPcWord(w) ==
    /\ w[1] = 0 /\ w[2] = 0 /\ w[3] = 0
    /\ w[4] >= instPtr /\ w[4] <= instPtr + MaxPc

\* Variant: the two low bytes of the retInfo word exchanged.
VALUE_RETINFO_swapped(nrv, rf, cio) == <<0, 0, cio, rf + 256 * nrv>>

\* VALUE_RETINFO(nrv, rf, cio), vm.c line 48
VALUE_RETINFO(nrv, rf, cio) == <<0, 0, cio, nrv + 256 * rf>>
\* VALUE_RETINFO_NUMRETVALS(v), vm.c line 74: v & 0xff
VALUE_RETINFO_NUMRETVALS(v) == v[4] % 256
\* VALUE_RETINFO_RETFLAG(v), vm.c line 75: (v & 0xff00) >> 8
VALUE_RETINFO_RETFLAG(v) == v[4] \div 256

(***************************************************************************)
(* Instruction bytes.  pc[k] is ins[k + 1].                                *)
(***************************************************************************)
At(ins, k) == ins[k + 1]
READ_U16(ins, offset) == At(ins, offset) + 256 * At(ins, offset + 1)
READ_U32(ins, offset) ==
    At(ins, offset) + 256 * At(ins, offset + 1)
    + 65536 * At(ins, offset + 2) + 16777216 * At(ins, offset + 3)
\* READ_U48: the menus keep bytes 4 and 5 of the field zero
READ_U48(ins, offset) == READ_U32(ins, offset)
U16Bytes(u) == <<u % 256, u \div 256>>

\* The instruction at pc: drawn from the menu, unless the loop has rewritten it.
Fetch(ins, menu) == IF inst = <<>> THEN ins \in menu ELSE ins = inst /\ ins \in menu

(***************************************************************************)
(* Opcodes: the position of each handler in jumpTable, vm.c lines 521-621. *)
(***************************************************************************)
CodeAdd               == 3
CodeSub               == 4
CodeCopy              == 9
CodeCopyReleaseDst    == 10
CodeCopyRetainSrc     == 13
CodeJump              == 22
CodeRelease           == 23
CodeReleaseN          == 24
CodeCallObjSym        == 25
CodeCallObjNativeFuncIC == 26
CodeCallObjFuncIC     == 27
CodeCallTypeCheck     == 28
CodeCallFuncIC        == 30
CodeCallNativeFuncIC  == 31
CodeRet1              == 32
CodeRet0              == 33
CodeField             == 35
CodeFieldIC           == 36
CodeFieldRetain       == 37
CodeFieldRetainIC     == 38
CodeCompare           == 41
CodeLess              == 42
CodeGreater           == 43
CodeLessEqual         == 44
CodeGreaterEqual      == 45
CodeMul               == 46
CodeDiv               == 47
CodePow               == 48
CodeMod               == 49
CodeCompareNot        == 50
CodeNeg               == 52
CodeSetFieldRelease   == 57
CodeSetFieldReleaseIC == 58
CodeRetain            == 67
CodeCopyRetainRelease == 68
CodeBitwiseAnd        == 79
CodeBitwiseOr         == 80
CodeBitwiseXor        == 81
CodeBitwiseNot        == 82
CodeBitwiseLeftShift  == 83
CodeBitwiseRightShift == 84
CodeForRangeInit      == 89
CodeForRange          == 90
CodeForRangeReverse   == 91

\* Instruction lengths of the CallSym and CallObjSym formats (vm.h): CallFuncIC
\* reads its last operand at bytes 6..11, CallObjFuncIC at bytes 14..15.
CALL_SYM_INST_LEN     == 12
CALL_OBJ_SYM_INST_LEN == 16

(***************************************************************************)
(* The loop's exits and the history record.                                *)
(***************************************************************************)
Running == res = "RUNNING"

\* RETURN(code), vm.c lines 488-493, with pc and stack as they are at the exit
RETURN(code, p, s) ==
    /\ curPc' = p
    /\ curStack' = s
    /\ res' = code
    /\ pc' = p
    /\ stack' = s

\* NEXT() with the loop registers set to p and s
NEXT(p, s) ==
    /\ pc' = p
    /\ stack' = s
    /\ UNCHANGED <<res, curPc, curStack>>

\* zFatal(): the process aborts
zFatal ==
    /\ res' = "FATAL"
    /\ UNCHANGED <<pc, stack, curPc, curStack>>

\* panicStaticMsg(vm, msg), vm.c lines 444-448
panicStaticMsg(msg) ==
    /\ panicMsg' = msg
    /\ panicType' = "PANIC_STATIC_MSG"

\* panicExpectedNumber(vm), vm.c lines 450-452
panicExpectedNumber == panicStaticMsg("Expected number operand.")

\* History: the instruction dispatched, the branch it took and the state before.
\* Variant: the bytes are stored one byte further.
WriteInst_shifted(p, bytes) ==
    [i \in 1 .. Len(instBuf) |->
        IF i - 2 >= p - instPtr /\ i - 2 < p - instPtr + Len(bytes)
        THEN bytes[i - 1 - (p - instPtr)] ELSE instBuf[i]]

\* The buffer after pc[k] = bytes[k + 1] for every k < Len(bytes), at address p
WriteInst(p, bytes) ==
    [i \in 1 .. Len(instBuf) |->
        IF i - 1 >= p - instPtr /\ i - 1 < p - instPtr + Len(bytes)
        THEN bytes[i - (p - instPtr)] ELSE instBuf[i]]

\* The instruction buffer as the next dispatch reads it
Buffer == IF inst = <<>> THEN instBuf ELSE WriteInst(pc, inst)

Before(op, ins, path) ==
    [op |-> op, ins |-> ins, path |-> path, pc |-> pc, stack |-> stack,
     regs |-> regs, rc |-> rc, freeCount |-> freeCount, frames |-> frames,
     buf |-> Buffer]

NoLast == [op |-> "none", ins |-> <<>>, path |-> "none", pc |-> 0, stack |-> 0,
           regs |-> <<>>, rc |-> <<>>, freeCount |-> <<>>, frames |-> <<>>,
           buf |-> <<>>]

\* History: a call whose frame has not returned: the call instruction, its
\* address and the caller's stack base.
Frame(op, ins) == [op |-> op, ins |-> ins, pc |-> pc, stack |-> stack]

SetHeap(h) == rc' = h.rc /\ freeCount' = h.freeCount

\* The instruction ends inside the buffer.
InBuffer(p) == p >= instPtr /\ p <= instPtr + MaxPc

(***************************************************************************)
(* Calls and returns.                                                      *)
(*                                                                         *)
(* Menus: a callee's frame starts past the caller's four header slots      *)
(* (startLocal >= 4) and its size numLocals counts its own header slots    *)
(* and arguments.                                                          *)
(***************************************************************************)
StartLocals == {4, 5}
CalleePc    == instPtr + 4

CallFuncICMenu ==
    { <<CodeCallFuncIC, sl, 0, nr, 4, 0>> \o U16Bytes(CalleePc) \o <<0, 0, 0, 0>> :
        sl \in StartLocals, nr \in {0, 1} }
    \cup { <<CodeCallFuncIC, 4, 0, 2, 6, 0>> \o U16Bytes(CalleePc) \o <<0, 0, 0, 0>> }

CachedTypeIds == {TYPE_NUMBER, HeadTypeId(1)}

CallObjFuncICMenu ==
    { <<CodeCallObjFuncIC, 4, 1, nr, 0, 0, 0, 5>>
        \o U16Bytes(CalleePc - instPtr) \o <<0, 0, 0, 0>> \o U16Bytes(ty) :
        nr \in {0, 1}, ty \in CachedTypeIds }

\* Variant: the headroom check accepts a frame that ends at stackEndPtr.
StackOverflow_offByOne(sp, startLocal, numLocals) == sp + startLocal + numLocals > stackEndPtr

\* The headroom check of a call, vm.c lines 994 and 929
StackOverflow(sp, startLocal, numLocals) == sp + startLocal + numLocals >= stackEndPtr

\* CASE(CallFuncIC), vm.c lines 991-1005
CallFuncIC(ins) ==
    /\ Running
    /\ Fetch(ins, CallFuncICMenu)
    /\ At(ins, 0) = CodeCallFuncIC
    /\ InBuffer(pc + CALL_SYM_INST_LEN)
    /\ LET startLocal == At(ins, 1)
           numLocals  == At(ins, 4)
       IN  IF StackOverflow(stack, startLocal, numLocals)
           THEN /\ RETURN("RES_CODE_STACK_OVERFLOW", pc, stack)
                /\ last' = Before("CallFuncIC", ins, "overflow")
                /\ UNCHANGED <<regs, frames>>
           ELSE /\ regs' = [regs EXCEPT
                       ![stack + startLocal + 1] = VALUE_RETINFO(At(ins, 3), 0, CALL_SYM_INST_LEN),
                       ![stack + startLocal + 2] = PcWord(pc + CALL_SYM_INST_LEN),
                       ![stack + startLocal + 3] = StackWord(stack)]
                /\ NEXT(READ_U48(ins, 6), stack + startLocal)
                /\ frames' = Append(frames, Frame("CallFuncIC", ins))
                /\ last' = Before("CallFuncIC", ins, "frame")
    /\ inst' = <<>>
    /\ UNCHANGED <<panicVars, heapVars, valueVars, fiberVars, progVars>>

\* CASE(CallObjFuncIC), vm.c lines 920-945.  recv is declared uint8_t: the
\* receiver's word is cut to its low byte before getTypeId reads it.  The
\* frame's retInfo is written bytewise: bytes 0 and 1 of slot 1 only.
CallObjFuncIC(ins) ==
    /\ Running
    /\ Fetch(ins, CallObjFuncICMenu)
    /\ At(ins, 0) = CodeCallObjFuncIC
    /\ InBuffer(pc + CALL_OBJ_SYM_INST_LEN)
    /\ LET startLocal   == At(ins, 1)
           numArgs      == At(ins, 2)
           recvSlot     == stack + startLocal + numArgs + 4 - 1
       IN
       /\ recvSlot < StackLen
       /\ LET recv         == WordOfNat(regs[recvSlot][4] % 256)
              typeId       == getTypeId(recv)
              cachedTypeId == READ_U16(ins, 14)
              numLocals    == At(ins, 7)
              base         == stack + startLocal
          IN  IF typeId = cachedTypeId
              THEN /\ inst' = <<>>
                   /\ IF StackOverflow(stack, startLocal, numLocals)
                      THEN /\ RETURN("RES_CODE_STACK_OVERFLOW", pc, stack)
                           /\ last' = Before("CallObjFuncIC", ins, "overflow")
                           /\ UNCHANGED <<regs, frames>>
                      ELSE /\ regs' = [regs EXCEPT
                                  ![base + 1] = <<@[1], @[2], @[3], At(ins, 3) + 256 * 0>>,
                                  ![base + 2] = PcWord(pc + 16),
                                  ![base + 3] = StackWord(stack)]
                           /\ NEXT(instPtr + READ_U32(ins, 8), base)
                           /\ frames' = Append(frames, Frame("CallObjFuncIC", ins))
                           /\ last' = Before("CallObjFuncIC", ins, "frame")
              ELSE \* Deoptimize.
                   /\ inst' = [ins EXCEPT ![1] = CodeCallObjSym]
                   /\ NEXT(pc, stack)
                   /\ last' = Before("CallObjFuncIC", ins, "deopt")
                   /\ UNCHANGED <<regs, frames>>
    /\ UNCHANGED <<panicVars, heapVars, valueVars, fiberVars, progVars>>

\* Variant: stack is reassigned before pc is read from it.
RetExit_stackFirst(retFlag) ==
    LET s == WordStack(regs[stack + 3])
        p == WordPc(regs[s + 2])
    IN  IF retFlag = 0 THEN NEXT(p, s) ELSE RETURN("RES_CODE_SUCCESS", p, s)

\* Variant: the retFlag test inverted.
RetExit_flagInverted(retFlag) ==
    LET p == WordPc(regs[stack + 2])
        s == WordStack(regs[stack + 3])
    IN  IF retFlag = 0 THEN RETURN("RES_CODE_SUCCESS", p, s) ELSE NEXT(p, s)

\* The exit shared by Ret1 and Ret0: pc = stack[2]; stack = stack[3]; then
\* NEXT() or RETURN(RES_CODE_SUCCESS) by retFlag.
RetExit(retFlag) ==
    LET p == WordPc(regs[stack + 2])
        s == WordStack(regs[stack + 3])
    IN  IF retFlag = 0 THEN NEXT(p, s) ELSE RETURN("RES_CODE_SUCCESS", p, s)

PopFrame == frames' = SubSeq(frames, 1, Len(frames) - 1)

\* The frame header holds addresses (it was written by a call).
FrameOk == IsPcWord(regs[stack + 2]) /\ IsStackWord(regs[stack + 3])

\* CASE(Ret1), vm.c lines 1034-1064
Ret1(ins) ==
    /\ Running
    /\ Fetch(ins, {<<CodeRet1>>})
    /\ At(ins, 0) = CodeRet1
    /\ FrameOk
    /\ LET reqNumArgs == VALUE_RETINFO_NUMRETVALS(regs[stack + 1])
           retFlag    == VALUE_RETINFO_RETFLAG(regs[stack + 1])
       IN  IF reqNumArgs = 1
           THEN /\ RetExit(retFlag)
                /\ PopFrame
                /\ last' = Before("Ret1", ins, "want1")
                /\ UNCHANGED heapVars
           ELSE IF reqNumArgs = 0
           THEN /\ Live(Heap, regs[stack])
                /\ SetHeap(release(Heap, regs[stack]))
                /\ RetExit(retFlag)
                /\ PopFrame
                /\ last' = Before("Ret1", ins, "want0")
           ELSE /\ zFatal
                /\ last' = Before("Ret1", ins, "fatal")
                /\ UNCHANGED <<heapVars, frames>>
    /\ inst' = <<>>
    /\ UNCHANGED <<regs, panicVars, valueVars, fiberVars, progVars>>

\* CASE(Ret0), vm.c lines 1065-1094
Ret0(ins) ==
    /\ Running
    /\ Fetch(ins, {<<CodeRet0>>})
    /\ At(ins, 0) = CodeRet0
    /\ FrameOk
    /\ LET reqNumArgs == VALUE_RETINFO_NUMRETVALS(regs[stack + 1])
           retFlag    == VALUE_RETINFO_RETFLAG(regs[stack + 1])
       IN  IF reqNumArgs = 0
           THEN /\ RetExit(retFlag)
                /\ PopFrame
                /\ last' = Before("Ret0", ins, "want0")
                /\ UNCHANGED regs
           ELSE IF reqNumArgs = 1
           THEN /\ regs' = [regs EXCEPT ![stack] = VALUE_NONE]
                /\ RetExit(retFlag)
                /\ PopFrame
                /\ last' = Before("Ret0", ins, "want1")
           ELSE /\ zFatal
                /\ last' = Before("Ret0", ins, "fatal")
                /\ UNCHANGED <<regs, frames>>
    /\ inst' = <<>>
    /\ UNCHANGED <<panicVars, heapVars, valueVars, fiberVars, progVars>>

(***************************************************************************)
(* Spec: the call/return protocol.  The embedder has built an entry frame  *)
(* (retFlag = 1) at EntryBase whose header records where the embedder      *)
(* continues; every other slot holds the same value from EntryFills.       *)
(***************************************************************************)
EntryBase  == 1
EntryRetFp == 0
EntryRetPc == instPtr + MaxPc
EntryFills == {VALUE_NONE, VALUE_PTR(1)}

EntryFrame(nr) ==
    [op |-> "entry", ins |-> <<0, 0, 0, nr>>, pc |-> EntryRetPc, stack |-> EntryRetFp]

\* No try-frame has been pushed, the main fiber is current and no fiber object
\* has been allocated.
FiberIdle ==
    /\ tryStack = [buf |-> <<>>, len |-> 0, cap |-> 0]
    /\ curFiber = 0
    /\ fibers = <<>>
    /\ varSyms = <<>>
    /\ handlers = <<>>
    /\ seen = <<>>

\* The loop is about to dispatch its first instruction.
LoopIdle ==
    /\ inst = <<>>
    /\ res = "RUNNING"
    /\ curPc = instPtr
    /\ curStack = 0
    /\ panicType = "PANIC_NONE"
    /\ panicMsg = ""
    /\ freeCount = [o \in Objs |-> 0]
    /\ last = NoLast

InitIdle ==
    /\ LoopIdle
    /\ instBuf = <<>>
    /\ fields = [o \in Objs |-> <<>>]
    /\ FiberIdle

\* No value is being converted outside the loop.
ValueIdle ==
    /\ intIn = 0
    /\ intVal = NoWord
    /\ intOut = 0
    /\ forI = NoIndex

Init ==
    /\ InitIdle
    /\ ValueIdle
    /\ pc = instPtr
    /\ stack = EntryBase
    /\ \E fill \in EntryFills, nr \in {0, 1} :
          /\ regs = [i \in 0 .. StackLen - 1 |->
                        IF i = EntryBase + 1 THEN VALUE_RETINFO(nr, 1, 0)
                        ELSE IF i = EntryBase + 2 THEN PcWord(EntryRetPc)
                        ELSE IF i = EntryBase + 3 THEN StackWord(EntryRetFp)
                        ELSE fill]
          /\ frames = <<EntryFrame(nr)>>
    /\ \E r \in {1, 2} : rc = [o \in Objs |-> r]

Next ==
    \/ \E ins \in CallFuncICMenu : CallFuncIC(ins)
    \/ \E ins \in CallObjFuncICMenu : CallObjFuncIC(ins)
    \/ Ret1(<<CodeRet1>>)
    \/ Ret0(<<CodeRet0>>)

Spec == Init /\ [][Next]_vars

(***************************************************************************)
(* Properties of the call/return protocol (checked under Spec).            *)
(***************************************************************************)
IsCall(op) == op \in {"CallFuncIC", "CallObjFuncIC"}
IsRet(op)  == op \in {"Ret0", "Ret1"}

\* The last instruction was a Ret0/Ret1 that left its frame (numRetVals 0 or 1).
Returned == IsRet(last.op) /\ last.path \in {"want0", "want1"}

\* The call whose frame the last return left.
MatchingCall == last.frames[Len(last.frames)]

\* The numLocals operand of a call instruction.
NumLocalsOf(f) == IF f.op = "CallFuncIC" THEN At(f.ins, 4) ELSE At(f.ins, 7)

\* C1: every Ret0/Ret1 that leaves a frame built by a bytecode call sets pc
\* to the retPc and stack to the retFp that the matching call stored in slots
\* 2 and 3 of the frame, which are the address of the instruction following
\* that call and the caller's stack base.
C1_ReturnMatchesCall ==
    (Returned /\ IsCall(MatchingCall.op)) =>
        /\ PcWord(pc) = last.regs[last.stack + 2]
        /\ StackWord(stack) = last.regs[last.stack + 3]
        /\ pc = MatchingCall.pc + Len(MatchingCall.ins)
        /\ stack = MatchingCall.stack
        /\ frames = SubSeq(last.frames, 1, Len(last.frames) - 1)

C1_Witness ==
    /\ Returned
    /\ Len(last.frames) >= 3
    /\ IsCall(MatchingCall.op)
    /\ res = "RUNNING"

\* C2: after a call that builds a frame, slot 2 of the new frame holds the
\* address just past the call instruction, slot 3 the caller's stack base,
\* slot 1 a retInfo with numRetVals = the numRet operand and retFlag = 0, and
\* the new stack base is the old one plus the startLocal operand.
C2_FrameHeader ==
    (IsCall(last.op) /\ last.path = "frame") =>
        /\ stack = last.stack + At(last.ins, 1)
        /\ regs[stack + 2] = PcWord(last.pc + Len(last.ins))
        /\ regs[stack + 3] = StackWord(last.stack)
        /\ VALUE_RETINFO_NUMRETVALS(regs[stack + 1]) = At(last.ins, 3)
        /\ VALUE_RETINFO_RETFLAG(regs[stack + 1]) = 0

C2_Witness ==
    /\ IsCall(last.op)
    /\ last.path = "frame"
    /\ At(last.ins, 3) = 1
    /\ Len(frames) >= 3

\* C3: a call enters the callee only when stack + startLocal + numLocals is
\* below stackEndPtr; otherwise the loop returns STACK_OVERFLOW with pc,
\* stack and every register as they were before the call; and the frame of
\* the call being executed always ends below stackEndPtr.
C3_StackOverflow ==
    /\ (IsCall(last.op) /\ last.path = "frame") =>
          last.stack + At(last.ins, 1) + NumLocalsOf(last) < stackEndPtr
    /\ (IsCall(last.op) /\ last.path = "overflow") =>
          /\ ~(last.stack + At(last.ins, 1) + NumLocalsOf(last) < stackEndPtr)
          /\ res = "RES_CODE_STACK_OVERFLOW"
          /\ pc = last.pc /\ curPc = last.pc
          /\ stack = last.stack /\ curStack = last.stack
          /\ regs = last.regs
          /\ frames = last.frames
    /\ (Len(frames) >= 2) =>
          LET top == frames[Len(frames)]
          IN  /\ stack = top.stack + At(top.ins, 1)
              /\ stack + NumLocalsOf(top) < stackEndPtr

C3_Witness ==
    /\ IsCall(last.op)
    /\ last.path = "overflow"
    /\ res = "RES_CODE_STACK_OVERFLOW"
    /\ Len(frames) >= 2

\* One release of v took the heap from (rc0, fc0) to the current one: the
\* count of the object v points to went down by one and the object was freed
\* iff the count reached zero; nothing else changed.
ReleasedOnce(v, rc0, fc0) ==
    IF VALUE_IS_POINTER(v)
    THEN LET o == VALUE_AS_HEAPOBJECT(v)
         IN  /\ rc = [rc0 EXCEPT ![o] = @ - 1]
             /\ freeCount = [fc0 EXCEPT ![o] = @ + (IF rc0[o] = 1 THEN 1 ELSE 0)]
    ELSE rc = rc0 /\ freeCount = fc0

\* C4: Ret1 with numRetVals = 1 leaves slot 0 as the callee set it; Ret1 with
\* numRetVals = 0 releases the value in slot 0 exactly once; Ret0 with
\* numRetVals = 1 writes NONE into slot 0; Ret0 with numRetVals = 0 leaves
\* slot 0 untouched.  No other register and no other count changes.
C4_ReturnValue ==
    Returned =>
        LET v == last.regs[last.stack]
        IN  CASE last.op = "Ret1" /\ last.path = "want1" ->
                    regs = last.regs /\ rc = last.rc /\ freeCount = last.freeCount
              [] last.op = "Ret1" /\ last.path = "want0" ->
                    regs = last.regs /\ ReleasedOnce(v, last.rc, last.freeCount)
              [] last.op = "Ret0" /\ last.path = "want1" ->
                    /\ regs = [last.regs EXCEPT ![last.stack] = VALUE_NONE]
                    /\ rc = last.rc /\ freeCount = last.freeCount
              [] last.op = "Ret0" /\ last.path = "want0" ->
                    regs = last.regs /\ rc = last.rc /\ freeCount = last.freeCount

C4_Witness ==
    /\ last.op = "Ret1"
    /\ last.path = "want0"
    /\ VALUE_IS_POINTER(last.regs[last.stack])
    /\ freeCount[VALUE_AS_HEAPOBJECT(last.regs[last.stack])] = 1

\* C5: a Ret0/Ret1 executed in a frame whose retInfo has retFlag = 1 ends the
\* loop with SUCCESS and vm->curPc, vm->curStack equal to the frame's recorded
\* retPc and retFp; with retFlag = 0 the loop keeps running, at retPc.
C5_RetFlag ==
    Returned =>
        LET retFlag == VALUE_RETINFO_RETFLAG(last.regs[last.stack + 1])
            retPc   == WordPc(last.regs[last.stack + 2])
            retFp   == WordStack(last.regs[last.stack + 3])
        IN  /\ retFlag = 1 =>
                  /\ res = "RES_CODE_SUCCESS"
                  /\ curPc = retPc
                  /\ curStack = retFp
            /\ retFlag = 0 =>
                  /\ res = "RUNNING"
                  /\ pc = retPc
                  /\ stack = retFp
                  /\ curPc = instPtr /\ curStack = 0

C5_Witness ==
    /\ Returned
    /\ VALUE_RETINFO_RETFLAG(last.regs[last.stack + 1]) = 1
    /\ res = "RES_CODE_SUCCESS"
    /\ curPc = EntryRetPc
    /\ curStack = EntryRetFp

(***************************************************************************)
(* SpecArith: the number opcodes and the two comparisons by identity.      *)
(*                                                                         *)
(* Registers 0 and 1 of the frame at stack = 0 hold the operands, drawn    *)
(* from ArithOperands; an instruction names them as left/right and writes  *)
(* register 0 or 2.  A result is stored when it is a double the model      *)
(* encodes, of magnitude at most MaxNum.                                   *)
(***************************************************************************)
ArithOperands ==
    { VALUE_NUMBER(Num(n)) : n \in (0 - MaxNum) .. MaxNum }
    \cup { VALUE_NUMBER(NegZero), VALUE_NONE, VALUE_TRUE, VALUE_INTEGER(1), VALUE_PTR(1) }

BinaryMenu(code) == { <<code, l, r, d>> : l \in {0, 1}, r \in {1}, d \in {0, 2} }
UnaryMenu(code)  == { <<code, d>> : d \in {0, 1} }

Left(ins)  == regs[stack + At(ins, 1)]
Right(ins) == regs[stack + At(ins, 2)]

NumberResult(d) == IF d.mag >= 0 /\ d.mag <= MaxNum THEN {VALUE_NUMBER(d)} ELSE {}

\* The handler shared, statement for statement, by Add, Sub, Mul, Div, Pow,
\* Mod, Less, Greater, LessEqual, GreaterEqual (e.g. vm.c lines 666-677):
\* vals holds the value the handler computes from two number operands.
NumberBinary(name, code, ins, vals) ==
    /\ Running
    /\ Fetch(ins, BinaryMenu(code))
    /\ At(ins, 0) = code
    /\ InBuffer(pc + 4)
    /\ IF VALUE_BOTH_NUMBERS(Left(ins), Right(ins))
       THEN /\ \E val \in vals : regs' = [regs EXCEPT ![stack + At(ins, 3)] = val]
            /\ NEXT(pc + 4, stack)
            /\ last' = Before(name, ins, "numbers")
            /\ UNCHANGED panicVars
       ELSE /\ panicExpectedNumber
            /\ RETURN("RES_CODE_PANIC", pc, stack)
            /\ last' = Before(name, ins, "panic")
            /\ UNCHANGED regs
    /\ inst' = <<>>
    /\ UNCHANGED <<heapVars, frames, valueVars, fiberVars, progVars>>

LeftNum(ins)  == VALUE_AS_NUMBER(Left(ins))
RightNum(ins) == VALUE_AS_NUMBER(Right(ins))

\* CASE(Add), vm.c lines 666-677
Add(ins) == NumberBinary("Add", CodeAdd, ins, NumberResult(DAdd(LeftNum(ins), RightNum(ins))))

\* CASE(Sub), vm.c lines 678-689
Sub(ins) == NumberBinary("Sub", CodeSub, ins, NumberResult(DSub(LeftNum(ins), RightNum(ins))))

\* CASE(Less), vm.c lines 1227-1238
Less(ins) ==
    NumberBinary("Less", CodeLess, ins, {VALUE_BOOLEAN(DLess(LeftNum(ins), RightNum(ins)))})

\* CASE(Greater), vm.c lines 1239-1250
Greater(ins) ==
    NumberBinary("Greater", CodeGreater, ins, {VALUE_BOOLEAN(DLess(RightNum(ins), LeftNum(ins)))})

\* CASE(LessEqual), vm.c lines 1251-1262
LessEqual(ins) ==
    NumberBinary("LessEqual", CodeLessEqual, ins,
                 {VALUE_BOOLEAN(~DLess(RightNum(ins), LeftNum(ins)))})

\* CASE(GreaterEqual), vm.c lines 1263-1274
GreaterEqual(ins) ==
    NumberBinary("GreaterEqual", CodeGreaterEqual, ins,
                 {VALUE_BOOLEAN(~DLess(LeftNum(ins), RightNum(ins)))})

\* CASE(Mul), vm.c lines 1275-1286
Mul(ins) == NumberBinary("Mul", CodeMul, ins, NumberResult(DMul(LeftNum(ins), RightNum(ins))))

\* CASE(Div), vm.c lines 1287-1298
Div(ins) == NumberBinary("Div", CodeDiv, ins, NumberResult(DDiv(LeftNum(ins), RightNum(ins))))

\* CASE(Pow), vm.c lines 1299-1310
Pow(ins) == NumberBinary("Pow", CodePow, ins, NumberResult(DPow(LeftNum(ins), RightNum(ins))))

\* CASE(Mod), vm.c lines 1311-1322
Mod(ins) == NumberBinary("Mod", CodeMod, ins, NumberResult(DMod(LeftNum(ins), RightNum(ins))))

\* Variant: pc is advanced before the operand is checked.
Neg_advancesFirst(ins) ==
    /\ Running
    /\ Fetch(ins, UnaryMenu(CodeNeg))
    /\ At(ins, 0) = CodeNeg
    /\ InBuffer(pc + 2)
    /\ LET dst == stack + At(ins, 1)
       IN  IF VALUE_IS_NUMBER(regs[dst])
           THEN /\ regs' = [regs EXCEPT ![dst] = VALUE_NUMBER(DNeg(VALUE_AS_NUMBER(regs[dst])))]
                /\ NEXT(pc + 2, stack)
                /\ last' = Before("Neg", ins, "numbers")
                /\ UNCHANGED panicVars
           ELSE /\ panicExpectedNumber
                /\ RETURN("RES_CODE_PANIC", pc + 2, stack)
                /\ last' = Before("Neg", ins, "panic")
                /\ UNCHANGED regs
    /\ inst' = <<>>
    /\ UNCHANGED <<heapVars, frames, valueVars, fiberVars, progVars>>

\* CASE(Neg), vm.c lines 1349-1359: the operand register is the destination
Neg(ins) ==
    /\ Running
    /\ Fetch(ins, UnaryMenu(CodeNeg))
    /\ At(ins, 0) = CodeNeg
    /\ InBuffer(pc + 2)
    /\ LET dst == stack + At(ins, 1)
       IN  IF VALUE_IS_NUMBER(regs[dst])
           THEN /\ regs' = [regs EXCEPT ![dst] = VALUE_NUMBER(DNeg(VALUE_AS_NUMBER(regs[dst])))]
                /\ NEXT(pc + 2, stack)
                /\ last' = Before("Neg", ins, "numbers")
                /\ UNCHANGED panicVars
           ELSE /\ panicExpectedNumber
                /\ RETURN("RES_CODE_PANIC", pc, stack)
                /\ last' = Before("Neg", ins, "panic")
                /\ UNCHANGED regs
    /\ inst' = <<>>
    /\ UNCHANGED <<heapVars, frames, valueVars, fiberVars, progVars>>

\* zEvalCompare / zEvalCompareNot: helpers defined outside vm.c.  They return
\* a Value to be stored; the deep comparison answers with a boolean.
zEvalCompare(left, right)    == {VALUE_TRUE, VALUE_FALSE}
zEvalCompareNot(left, right) == {VALUE_TRUE, VALUE_FALSE}

\* Variant: the comparison checks for number operands like Less does.
Compare_expectsNumbers(ins) ==
    /\ Running
    /\ Fetch(ins, BinaryMenu(CodeCompare))
    /\ At(ins, 0) = CodeCompare
    /\ InBuffer(pc + 4)
    /\ IF VALUE_BOTH_NUMBERS(Left(ins), Right(ins))
       THEN /\ IF Left(ins) = Right(ins)
               THEN /\ regs' = [regs EXCEPT ![stack + At(ins, 3)] = VALUE_TRUE]
                    /\ last' = Before("Compare", ins, "same")
               ELSE /\ \E val \in zEvalCompare(Left(ins), Right(ins)) :
                          regs' = [regs EXCEPT ![stack + At(ins, 3)] = val]
                    /\ last' = Before("Compare", ins, "helper")
            /\ NEXT(pc + 4, stack)
            /\ UNCHANGED panicVars
       ELSE /\ panicExpectedNumber
            /\ RETURN("RES_CODE_PANIC", pc, stack)
            /\ last' = Before("Compare", ins, "panic")
            /\ UNCHANGED regs
    /\ inst' = <<>>
    /\ UNCHANGED <<heapVars, frames, valueVars, fiberVars, progVars>>

\* CASE(Compare), vm.c lines 1216-1226
Compare(ins) ==
    /\ Running
    /\ Fetch(ins, BinaryMenu(CodeCompare))
    /\ At(ins, 0) = CodeCompare
    /\ InBuffer(pc + 4)
    /\ IF Left(ins) = Right(ins)
       THEN /\ regs' = [regs EXCEPT ![stack + At(ins, 3)] = VALUE_TRUE]
            /\ last' = Before("Compare", ins, "same")
       ELSE /\ \E val \in zEvalCompare(Left(ins), Right(ins)) :
                  regs' = [regs EXCEPT ![stack + At(ins, 3)] = val]
            /\ last' = Before("Compare", ins, "helper")
    /\ NEXT(pc + 4, stack)
    /\ inst' = <<>>
    /\ UNCHANGED <<panicVars, heapVars, frames, valueVars, fiberVars, progVars>>

\* CASE(CompareNot), vm.c lines 1323-1333
CompareNot(ins) ==
    /\ Running
    /\ Fetch(ins, BinaryMenu(CodeCompareNot))
    /\ At(ins, 0) = CodeCompareNot
    /\ InBuffer(pc + 4)
    /\ IF Left(ins) = Right(ins)
       THEN /\ regs' = [regs EXCEPT ![stack + At(ins, 3)] = VALUE_FALSE]
            /\ last' = Before("CompareNot", ins, "same")
       ELSE /\ \E val \in zEvalCompareNot(Left(ins), Right(ins)) :
                  regs' = [regs EXCEPT ![stack + At(ins, 3)] = val]
            /\ last' = Before("CompareNot", ins, "helper")
    /\ NEXT(pc + 4, stack)
    /\ inst' = <<>>
    /\ UNCHANGED <<panicVars, heapVars, frames, valueVars, fiberVars, progVars>>

\* The loop is entered at the frame stack = 0 with room bytes of instructions to go;
\* registers 0 and 1 hold operands, every other register NONE.
InitOperands(operands, room) ==
    /\ InitIdle
    /\ ValueIdle
    /\ pc = instPtr + MaxPc - room
    /\ stack = 0
    /\ \E a \in operands, b \in operands :
          regs = [i \in 0 .. StackLen - 1 |->
                     IF i = 0 THEN a ELSE IF i = 1 THEN b ELSE VALUE_NONE]
    /\ frames = <<>>
    /\ rc = [o \in Objs |-> 1]

InitArith == InitOperands(ArithOperands, 6)

NextArith ==
    \/ \E ins \in BinaryMenu(CodeAdd) : Add(ins)
    \/ \E ins \in BinaryMenu(CodeSub) : Sub(ins)
    \/ \E ins \in BinaryMenu(CodeMul) : Mul(ins)
    \/ \E ins \in BinaryMenu(CodeDiv) : Div(ins)
    \/ \E ins \in BinaryMenu(CodePow) : Pow(ins)
    \/ \E ins \in BinaryMenu(CodeMod) : Mod(ins)
    \/ \E ins \in BinaryMenu(CodeLess) : Less(ins)
    \/ \E ins \in BinaryMenu(CodeGreater) : Greater(ins)
    \/ \E ins \in BinaryMenu(CodeLessEqual) : LessEqual(ins)
    \/ \E ins \in BinaryMenu(CodeGreaterEqual) : GreaterEqual(ins)
    \/ \E ins \in UnaryMenu(CodeNeg) : Neg(ins)
    \/ \E ins \in BinaryMenu(CodeCompare) : Compare(ins)
    \/ \E ins \in BinaryMenu(CodeCompareNot) : CompareNot(ins)

SpecArith == InitArith /\ [][NextArith]_vars

(***************************************************************************)
(* Properties of the number opcodes (checked under SpecArith).             *)
(***************************************************************************)
NumberOps == {"Add", "Sub", "Mul", "Div", "Pow", "Mod",
              "Less", "Greater", "LessEqual", "GreaterEqual"}

\* The operands the last instruction read, as they were before it ran.
LastLeft  == last.regs[last.stack + At(last.ins, 1)]
LastRight == last.regs[last.stack + At(last.ins, 2)]

\* Some operand of the last instruction, a number opcode, was not a number.
NonNumberOperand ==
    \/ last.op \in NumberOps /\ ~(VALUE_IS_NUMBER(LastLeft) /\ VALUE_IS_NUMBER(LastRight))
    \/ last.op = "Neg" /\ ~VALUE_IS_NUMBER(LastLeft)

ExpectedNumberPanic ==
    /\ res = "RES_CODE_PANIC"
    /\ panicType = "PANIC_STATIC_MSG"
    /\ panicMsg = "Expected number operand."

\* C6: when an operand of Add, Sub, Mul, Div, Pow, Mod, Less, Greater,
\* LessEqual, GreaterEqual or Neg is not a number, the loop returns PANIC
\* with the static message "Expected number operand.", no register (so not
\* the destination) is written and pc, vm->curPc are at the faulting
\* instruction.
C6_ExpectedNumber ==
    NonNumberOperand =>
        /\ ExpectedNumberPanic
        /\ regs = last.regs
        /\ pc = last.pc /\ curPc = last.pc
        /\ stack = last.stack /\ curStack = last.stack

C6_Witness ==
    /\ last.op = "Pow"
    /\ VALUE_IS_NUMBER(LastLeft)
    /\ VALUE_IS_POINTER(LastRight)
    /\ res = "RES_CODE_PANIC"

\* C7 as stated: Compare and CompareNot given an operand that is not a number
\* raise PANIC "Expected number operand." and do not write the destination.
C7_AsStated ==
    (last.op \in {"Compare", "CompareNot"}
        /\ ~(VALUE_IS_NUMBER(LastLeft) /\ VALUE_IS_NUMBER(LastRight))) =>
        /\ ExpectedNumberPanic
        /\ regs = last.regs

\* C7: Compare and CompareNot take operands of any type and never panic: the
\* loop keeps running at pc + 4, and the destination register, and no other,
\* is written: with TRUE (Compare) or FALSE (CompareNot) when the operands
\* are the same word, otherwise with the value the external helper returned.
C7_CompareAnyType ==
    (last.op \in {"Compare", "CompareNot"}) =>
        LET dst == last.stack + At(last.ins, 3)
        IN  /\ res = "RUNNING"
            /\ pc = last.pc + 4
            /\ stack = last.stack
            /\ \A i \in DOMAIN regs : i # dst => regs[i] = last.regs[i]
            /\ LastLeft = LastRight =>
                  regs[dst] = (IF last.op = "Compare" THEN VALUE_TRUE ELSE VALUE_FALSE)
            /\ LastLeft # LastRight =>
                  regs[dst] \in (IF last.op = "Compare"
                                 THEN zEvalCompare(LastLeft, LastRight)
                                 ELSE zEvalCompareNot(LastLeft, LastRight))

C7_Witness ==
    /\ last.op = "Compare"
    /\ LastLeft = VALUE_NONE
    /\ LastRight = VALUE_NONE
    /\ regs[last.stack + At(last.ins, 3)] = VALUE_TRUE
    /\ res = "RUNNING"

(***************************************************************************)
(* SpecBitwise: the bitwise opcodes.  int32_t arithmetic is computed on    *)
(* the two 16-bit halves of the two's complement word.                     *)
(***************************************************************************)
I32And(a, b) == Int32OfWord(WordAnd(WordOfInt32(a), WordOfInt32(b)))
I32Or(a, b)  == Int32OfWord(WordOr(WordOfInt32(a), WordOfInt32(b)))
I32Xor(a, b) == Int32OfWord(WordXor(WordOfInt32(a), WordOfInt32(b)))
I32Not(a)    == (0 - 1) - a

\* The low 32 bits of a << k, 0 <= k <= 31, as an int32
I32ShlWrap(a, k) ==
    LET w  == WordOfInt32(a)
        hi == IF k < 16 THEN (((w[3] * Pow2(k)) % 65536) + ((w[4] * Pow2(k)) \div 65536)) % 65536
              ELSE (w[4] * Pow2(k - 16)) % 65536
        lo == IF k < 16 THEN (w[4] * Pow2(k)) % 65536 ELSE 0
    IN  Int32OfWord(<<0, 0, hi, lo>>)

\* a << k in C, the set of outcomes: defined when a >= 0, 0 <= k <= 31 and
\* a * 2^k fits int32; otherwise undefined (builds wrap, and mask the count).
I32Shl(a, k) ==
    IF a = 0 /\ k >= 0 /\ k <= 31 THEN {0}
    ELSE IF a >= 0 /\ k >= 0 /\ k <= 30 /\ a <= INT32_MAX \div Pow2(k)
    THEN {a * Pow2(k)}
    ELSE {I32ShlWrap(a, k % 32)} \cup UndefinedInt32

\* a >> k in C, the set of outcomes: defined for 0 <= k <= 31 (an arithmetic
\* shift for a < 0 in every build); otherwise undefined.
I32Shr(a, k) ==
    IF k >= 0 /\ k <= 30 THEN {a \div Pow2(k)}
    ELSE IF k = 31 THEN {IF a < 0 THEN 0 - 1 ELSE 0}
    ELSE {(IF k % 32 = 31 THEN (IF a < 0 THEN 0 - 1 ELSE 0) ELSE a \div Pow2(k % 32))}
         \cup UndefinedInt32

\* Doubles that are no integers, too large for int32, and no number at all.
OneAndHalf      == <<16376, 0, 0, 0>>      \* 1.5   = 0x3FF8000000000000
MinusTwoAndHalf == <<49156, 0, 0, 0>>      \* -2.5  = 0xC004000000000000
TwoPow31        == <<16864, 0, 0, 0>>      \* 2^31  = 0x41E0000000000000
QuietNaN        == <<32760, 0, 0, 0>>      \* a NaN = 0x7FF8000000000000

ShiftCounts == {31, 32}

BitwiseOperands ==
    { VALUE_NUMBER(Num(n)) : n \in ((0 - MaxNum) .. MaxNum) \cup ShiftCounts }
    \cup { OneAndHalf, MinusTwoAndHalf, TwoPow31, QuietNaN }
    \cup { VALUE_NONE, VALUE_TRUE, VALUE_PTR(1) }

\* The handler shared, statement for statement, by BitwiseAnd, BitwiseOr,
\* BitwiseXor, BitwiseLeftShift, BitwiseRightShift (e.g. vm.c lines 1732-1743):
\* results holds the outcomes of the int32 computation on two number operands.
BitwiseBinary(name, code, ins, results) ==
    /\ Running
    /\ Fetch(ins, BinaryMenu(code))
    /\ At(ins, 0) = code
    /\ InBuffer(pc + 4)
    /\ IF VALUE_BOTH_NUMBERS(Left(ins), Right(ins))
       THEN /\ \E r \in results :
                  regs' = [regs EXCEPT ![stack + At(ins, 3)] = NumberOfInt32(r)]
            /\ NEXT(pc + 4, stack)
            /\ last' = Before(name, ins, "numbers")
            /\ UNCHANGED panicVars
       ELSE /\ panicExpectedNumber
            /\ RETURN("RES_CODE_PANIC", pc, stack)
            /\ last' = Before(name, ins, "panic")
            /\ UNCHANGED regs
    /\ inst' = <<>>
    /\ UNCHANGED <<heapVars, frames, valueVars, fiberVars, progVars>>

LeftInt(ins)  == VALUE_AS_NUMBER_TO_INT(Left(ins))
RightInt(ins) == VALUE_AS_NUMBER_TO_INT(Right(ins))

\* CASE(BitwiseAnd), vm.c lines 1732-1743
BitwiseAnd(ins) ==
    BitwiseBinary("BitwiseAnd", CodeBitwiseAnd, ins,
                  { I32And(a, b) : a \in LeftInt(ins), b \in RightInt(ins) })

\* CASE(BitwiseOr), vm.c lines 1744-1755
BitwiseOr(ins) ==
    BitwiseBinary("BitwiseOr", CodeBitwiseOr, ins,
                  { I32Or(a, b) : a \in LeftInt(ins), b \in RightInt(ins) })

\* CASE(BitwiseXor), vm.c lines 1756-1767
BitwiseXor(ins) ==
    BitwiseBinary("BitwiseXor", CodeBitwiseXor, ins,
                  { I32Xor(a, b) : a \in LeftInt(ins), b \in RightInt(ins) })

\* CASE(BitwiseNot), vm.c lines 1768-1780: the operand register is the destination
BitwiseNot(ins) ==
    /\ Running
    /\ Fetch(ins, UnaryMenu(CodeBitwiseNot))
    /\ At(ins, 0) = CodeBitwiseNot
    /\ InBuffer(pc + 2)
    /\ LET dst == stack + At(ins, 1)
           val == regs[dst]
       IN  IF VALUE_IS_NUMBER(val)
           THEN /\ \E a \in VALUE_AS_NUMBER_TO_INT(val) :
                      regs' = [regs EXCEPT ![dst] = NumberOfInt32(I32Not(a))]
                /\ NEXT(pc + 2, stack)
                /\ last' = Before("BitwiseNot", ins, "numbers")
                /\ UNCHANGED panicVars
           ELSE /\ panicExpectedNumber
                /\ RETURN("RES_CODE_PANIC", pc, stack)
                /\ last' = Before("BitwiseNot", ins, "panic")
                /\ UNCHANGED regs
    /\ inst' = <<>>
    /\ UNCHANGED <<heapVars, frames, valueVars, fiberVars, progVars>>

\* CASE(BitwiseLeftShift), vm.c lines 1781-1792
BitwiseLeftShift(ins) ==
    BitwiseBinary("BitwiseLeftShift", CodeBitwiseLeftShift, ins,
                  UNION { I32Shl(a, b) : a \in LeftInt(ins), b \in RightInt(ins) })

\* CASE(BitwiseRightShift), vm.c lines 1793-1804
BitwiseRightShift(ins) ==
    BitwiseBinary("BitwiseRightShift", CodeBitwiseRightShift, ins,
                  UNION { I32Shr(a, b) : a \in LeftInt(ins), b \in RightInt(ins) })

InitBitwise == InitOperands(BitwiseOperands, 4)

NextBitwise ==
    \/ \E ins \in BinaryMenu(CodeBitwiseAnd) : BitwiseAnd(ins)
    \/ \E ins \in BinaryMenu(CodeBitwiseOr) : BitwiseOr(ins)
    \/ \E ins \in BinaryMenu(CodeBitwiseXor) : BitwiseXor(ins)
    \/ \E ins \in UnaryMenu(CodeBitwiseNot) : BitwiseNot(ins)
    \/ \E ins \in BinaryMenu(CodeBitwiseLeftShift) : BitwiseLeftShift(ins)
    \/ \E ins \in BinaryMenu(CodeBitwiseRightShift) : BitwiseRightShift(ins)

SpecBitwise == InitBitwise /\ [][NextBitwise]_vars

(***************************************************************************)
(* Properties of the bitwise opcodes (checked under SpecBitwise).          *)
(***************************************************************************)
BitwiseOps == {"BitwiseAnd", "BitwiseOr", "BitwiseXor", "BitwiseNot",
               "BitwiseLeftShift", "BitwiseRightShift"}

\* Bit i (0 .. 31) of the two's complement form of the int32 n.
Bit(n, i) == IF i = 31 THEN n < 0 ELSE (n \div Pow2(i)) % 2 = 1

\* The operands of the last instruction, a bitwise opcode, were numbers
\* (BitwiseNot has one, in the register it overwrites).
BitwiseNumbers ==
    IF last.op = "BitwiseNot" THEN VALUE_IS_NUMBER(LastLeft)
    ELSE VALUE_IS_NUMBER(LastLeft) /\ VALUE_IS_NUMBER(LastRight)

\* ... and each truncates into int32, so that the conversion is defined.
BitwiseInRange ==
    /\ BitwiseNumbers
    /\ DoubleInInt32(LastLeft)
    /\ last.op # "BitwiseNot" => DoubleInInt32(LastRight)

BitwiseDst == last.stack + At(last.ins, IF last.op = "BitwiseNot" THEN 1 ELSE 3)

\* The int32 result the last bitwise instruction must store, stated bit by
\* bit on the truncated operands a and b.
BitwiseExpects(r) ==
    LET a == DoubleTrunc(LastLeft)
        b == DoubleTrunc(LastRight)
    IN  CASE last.op = "BitwiseAnd" -> \A i \in 0 .. 31 : Bit(r, i) = (Bit(a, i) /\ Bit(b, i))
          [] last.op = "BitwiseOr"  -> \A i \in 0 .. 31 : Bit(r, i) = (Bit(a, i) \/ Bit(b, i))
          [] last.op = "BitwiseXor" -> \A i \in 0 .. 31 : Bit(r, i) = (Bit(a, i) # Bit(b, i))
          [] last.op = "BitwiseNot" -> \A i \in 0 .. 31 : Bit(r, i) = ~Bit(a, i)
          [] last.op = "BitwiseLeftShift" ->
                (a >= 0 /\ b >= 0 /\ b <= 31
                    /\ (a = 0 \/ (b <= 30 /\ a <= INT32_MAX \div Pow2(b)))) =>
                    \A i \in 0 .. 31 : Bit(r, i) = (i >= b /\ Bit(a, i - b))
          [] last.op = "BitwiseRightShift" ->
                (b >= 0 /\ b <= 31) =>
                    \A i \in 0 .. 31 : Bit(r, i) = Bit(a, IF i + b > 31 THEN 31 ELSE i + b)

\* C8 as stated: a bitwise opcode does not fail, whatever its operands: the
\* loop keeps running and the destination holds a number.
C8_AsStated ==
    (last.op \in BitwiseOps) =>
        /\ res = "RUNNING"
        /\ VALUE_IS_NUMBER(regs[BitwiseDst])

\* C8: a bitwise opcode given number operands that truncate into int32
\* converts each by truncation toward zero, computes in 32-bit two's
\* complement (shifts: for a count in 0 .. 31, and for a left shift a
\* non-negative left operand whose result fits) and stores the result as the
\* number (double)res, advancing pc by 4 (BitwiseNot: 2); given an operand
\* that is not a number it returns PANIC "Expected number operand." and
\* writes no register.
C8_BitwiseInt32 ==
    (last.op \in BitwiseOps) =>
        /\ BitwiseInRange =>
              /\ res = "RUNNING"
              /\ pc = last.pc + Len(last.ins)
              /\ \A i \in DOMAIN regs : i # BitwiseDst => regs[i] = last.regs[i]
              /\ VALUE_IS_NUMBER(regs[BitwiseDst])
              /\ DoubleInInt32(regs[BitwiseDst])
              /\ NumberOfInt32(DoubleTrunc(regs[BitwiseDst])) = regs[BitwiseDst]
              /\ BitwiseExpects(DoubleTrunc(regs[BitwiseDst]))
        /\ ~BitwiseNumbers =>
              /\ ExpectedNumberPanic
              /\ regs = last.regs
              /\ pc = last.pc /\ curPc = last.pc

\* -2.5 & 3: -2.5 truncates to -2, and -2 & 3 = 2.
C8_Witness ==
    /\ last.op = "BitwiseAnd"
    /\ LastLeft = MinusTwoAndHalf
    /\ LastRight = VALUE_NUMBER(Num(3))
    /\ regs[BitwiseDst] = VALUE_NUMBER(Num(2))
    /\ res = "RUNNING"

(***************************************************************************)
(* SpecCopy: the four copy opcodes.  Registers 0 .. 2 of the frame at      *)
(* stack = 0 hold values drawn from CopyValues, the objects they point to  *)
(* are alive with a count of 1 or 2.                                       *)
(***************************************************************************)
CopyValues == {VALUE_NONE, VALUE_NUMBER(Num(1))} \cup { VALUE_PTR(o) : o \in Objs }

CopyMenu(code) == { <<code, src, dst>> : src \in {0, 1}, dst \in {0, 1, 2} }

\* CASE(Copy), vm.c lines 713-716
Copy(ins) ==
    /\ Running
    /\ Fetch(ins, CopyMenu(CodeCopy))
    /\ At(ins, 0) = CodeCopy
    /\ InBuffer(pc + 3)
    /\ regs' = [regs EXCEPT ![stack + At(ins, 2)] = regs[stack + At(ins, 1)]]
    /\ NEXT(pc + 3, stack)
    /\ last' = Before("Copy", ins, "copy")
    /\ inst' = <<>>
    /\ UNCHANGED <<panicVars, heapVars, frames, valueVars, fiberVars, progVars>>

\* Variant: the source register is released instead of the destination.
CopyReleaseDst_releasesSrc(ins) ==
    /\ Running
    /\ Fetch(ins, CopyMenu(CodeCopyReleaseDst))
    /\ At(ins, 0) = CodeCopyReleaseDst
    /\ InBuffer(pc + 3)
    /\ LET dst == stack + At(ins, 2)
       IN  /\ Live(Heap, regs[stack + At(ins, 1)])
           /\ SetHeap(release(Heap, regs[stack + At(ins, 1)]))
           /\ regs' = [regs EXCEPT ![dst] = regs[stack + At(ins, 1)]]
    /\ NEXT(pc + 3, stack)
    /\ last' = Before("CopyReleaseDst", ins, "copy")
    /\ inst' = <<>>
    /\ UNCHANGED <<panicVars, frames, valueVars, fiberVars, progVars>>

\* CASE(CopyReleaseDst), vm.c lines 717-723
CopyReleaseDst(ins) ==
    /\ Running
    /\ Fetch(ins, CopyMenu(CodeCopyReleaseDst))
    /\ At(ins, 0) = CodeCopyReleaseDst
    /\ InBuffer(pc + 3)
    /\ LET dst == stack + At(ins, 2)
       IN  /\ Live(Heap, regs[dst])
           /\ SetHeap(release(Heap, regs[dst]))
           /\ regs' = [regs EXCEPT ![dst] = regs[stack + At(ins, 1)]]
    /\ NEXT(pc + 3, stack)
    /\ last' = Before("CopyReleaseDst", ins, "copy")
    /\ inst' = <<>>
    /\ UNCHANGED <<panicVars, frames, valueVars, fiberVars, progVars>>

\* CASE(CopyRetainSrc), vm.c lines 746-752
CopyRetainSrc(ins) ==
    /\ Running
    /\ Fetch(ins, CopyMenu(CodeCopyRetainSrc))
    /\ At(ins, 0) = CodeCopyRetainSrc
    /\ InBuffer(pc + 3)
    /\ LET val == regs[stack + At(ins, 1)]
       IN  /\ Live(Heap, val)
           /\ SetHeap(retain(Heap, val))
           /\ regs' = [regs EXCEPT ![stack + At(ins, 2)] = val]
    /\ NEXT(pc + 3, stack)
    /\ last' = Before("CopyRetainSrc", ins, "copy")
    /\ inst' = <<>>
    /\ UNCHANGED <<panicVars, frames, valueVars, fiberVars, progVars>>

\* CASE(CopyRetainRelease), vm.c lines 1590-1598
CopyRetainRelease(ins) ==
    /\ Running
    /\ Fetch(ins, CopyMenu(CodeCopyRetainRelease))
    /\ At(ins, 0) = CodeCopyRetainRelease
    /\ InBuffer(pc + 3)
    /\ LET src == stack + At(ins, 1)
           dst == stack + At(ins, 2)
           h1  == retain(Heap, regs[src])
       IN  /\ Live(Heap, regs[src])
           /\ Live(h1, regs[dst])
           /\ SetHeap(release(h1, regs[dst]))
           /\ regs' = [regs EXCEPT ![dst] = regs[src]]
    /\ NEXT(pc + 3, stack)
    /\ last' = Before("CopyRetainRelease", ins, "copy")
    /\ inst' = <<>>
    /\ UNCHANGED <<panicVars, frames, valueVars, fiberVars, progVars>>

InitCopy ==
    /\ InitIdle
    /\ ValueIdle
    /\ pc = instPtr + MaxPc - 6
    /\ stack = 0
    /\ \E a \in CopyValues, b \in CopyValues, c \in CopyValues :
          regs = [i \in 0 .. StackLen - 1 |->
                     IF i = 0 THEN a ELSE IF i = 1 THEN b ELSE IF i = 2 THEN c
                     ELSE VALUE_NONE]
    /\ frames = <<>>
    /\ rc \in [Objs -> {1, 2}]

NextCopy ==
    \/ \E ins \in CopyMenu(CodeCopy) : Copy(ins)
    \/ \E ins \in CopyMenu(CodeCopyReleaseDst) : CopyReleaseDst(ins)
    \/ \E ins \in CopyMenu(CodeCopyRetainSrc) : CopyRetainSrc(ins)
    \/ \E ins \in CopyMenu(CodeCopyRetainRelease) : CopyRetainRelease(ins)

SpecCopy == InitCopy /\ [][NextCopy]_vars

(***************************************************************************)
(* Properties of the copy opcodes (checked under SpecCopy).                *)
(***************************************************************************)
CopyOps == {"Copy", "CopyReleaseDst", "CopyRetainSrc", "CopyRetainRelease"}

\* The counts rc0 after one retain of v.
RetainedOnce(v, rc0) ==
    IF VALUE_IS_POINTER(v) THEN [rc0 EXCEPT ![VALUE_AS_HEAPOBJECT(v)] = @ + 1] ELSE rc0

\* C10: each copy opcode leaves the destination register equal to the source
\* and every other register unchanged, and advances pc by 3.  Copy changes
\* no count; CopyRetainSrc adds 1 to the count of the source's object;
\* CopyReleaseDst releases the destination's previous value once;
\* CopyRetainRelease retains the source, then releases the destination's
\* previous value once.
C10_CopyEffects ==
    (last.op \in CopyOps) =>
        LET src  == last.regs[last.stack + At(last.ins, 1)]
            dst  == last.stack + At(last.ins, 2)
            prev == last.regs[dst]
        IN  /\ regs = [last.regs EXCEPT ![dst] = src]
            /\ pc = last.pc + 3
            /\ res = "RUNNING"
            /\ CASE last.op = "Copy" ->
                      rc = last.rc /\ freeCount = last.freeCount
                 [] last.op = "CopyRetainSrc" ->
                      rc = RetainedOnce(src, last.rc) /\ freeCount = last.freeCount
                 [] last.op = "CopyReleaseDst" ->
                      ReleasedOnce(prev, last.rc, last.freeCount)
                 [] last.op = "CopyRetainRelease" ->
                      ReleasedOnce(prev, RetainedOnce(src, last.rc), last.freeCount)

\* CopyRetainRelease over a destination that held the last reference to an
\* object other than the source's.
C10_Witness ==
    /\ last.op = "CopyRetainRelease"
    /\ VALUE_IS_POINTER(regs[last.stack + At(last.ins, 2)])
    /\ VALUE_IS_POINTER(last.regs[last.stack + At(last.ins, 2)])
    /\ regs[last.stack + At(last.ins, 2)] # last.regs[last.stack + At(last.ins, 2)]
    /\ freeCount[VALUE_AS_HEAPOBJECT(last.regs[last.stack + At(last.ins, 2)])] = 1
    /\ rc[VALUE_AS_HEAPOBJECT(regs[last.stack + At(last.ins, 2)])] = last.rc[VALUE_AS_HEAPOBJECT(regs[last.stack + At(last.ins, 2)])] + 1

(***************************************************************************)
(* SpecValue: the integer encoding.  An int32 n is drawn from the values   *)
(* around the boundaries of its 16-bit halves and of its range, encoded    *)
(* with VALUE_INTEGER and decoded with VALUE_AS_INTEGER.                   *)
(***************************************************************************)
Int32Bases == {INT32_MIN + MaxNum, 0 - 65536, 0 - 32768, 0, 32768, 65536, INT32_MAX - MaxNum}
Int32Samples == { b + d : b \in Int32Bases, d \in (0 - MaxNum) .. MaxNum }

InitValue ==
    /\ InitIdle
    /\ pc = instPtr
    /\ stack = 0
    /\ regs = [i \in 0 .. StackLen - 1 |-> VALUE_NONE]
    /\ frames = <<>>
    /\ rc = [o \in Objs |-> 1]
    /\ intIn \in Int32Samples
    /\ intVal = NoWord
    /\ intOut = 0
    /\ forI = NoIndex

\* v = VALUE_INTEGER(n)
EncodeInteger ==
    /\ last.op = "none"
    /\ intVal' = VALUE_INTEGER(intIn)
    /\ last' = [NoLast EXCEPT !.op = "VALUE_INTEGER"]
    /\ UNCHANGED <<loopVars, panicVars, heapVars, frames, progVars, fiberVars, intIn, intOut, forI>>

\* m = VALUE_AS_INTEGER(v)
DecodeInteger ==
    /\ last.op = "VALUE_INTEGER"
    /\ intOut' = VALUE_AS_INTEGER(intVal)
    /\ last' = [NoLast EXCEPT !.op = "VALUE_AS_INTEGER"]
    /\ UNCHANGED <<loopVars, panicVars, heapVars, frames, progVars, fiberVars, intIn, intVal, forI>>

NextValue == EncodeInteger \/ DecodeInteger

SpecValue == InitValue /\ [][NextValue]_vars

\* C9: for every int32 n, VALUE_AS_INTEGER(VALUE_INTEGER(n)) = n.
C9_IntegerRoundTrip ==
    (last.op = "VALUE_AS_INTEGER") => intOut = intIn

C9_Witness ==
    /\ last.op = "VALUE_AS_INTEGER"
    /\ intIn = INT32_MIN
    /\ intOut = INT32_MIN
    /\ intVal = <<65535, 65535, 32768, 0>>

(***************************************************************************)
(* SpecRc: Retain, Release, ReleaseN and the copy opcodes.  Registers      *)
(* 0 .. 2 hold none or a pointer; every object starts alive with a count   *)
(* of 1 or 2.  Copy duplicates a pointer without a retain, so a release    *)
(* can leave a register pointing to a freed object.  retain and release    *)
(* dereference the pointer without a check (the "object already freed"     *)
(* test of release is commented out, vm.c lines 125-131): on a freed       *)
(* object they read whatever the freed storage holds in obj->head.rc.      *)
(***************************************************************************)
\* obj->head.rc as read from freed storage: 0 as release left it, or what
\* the allocator wrote over it.
FreedRc == {0, 1, 2}

\* The heaps in which val is dereferenced: the heap itself while the object
\* is alive, any content of the count field once it is freed.
Deref(h, val) ==
    IF Live(h, val) THEN {h}
    ELSE { [h EXCEPT !.rc[VALUE_AS_HEAPOBJECT(val)] = g] : g \in FreedRc }

RcValues == {VALUE_NONE} \cup { VALUE_PTR(o) : o \in Objs }

RcMenu(code) == { <<code, r>> : r \in {0, 1} }

ReleaseNMenu ==
    { <<CodeReleaseN, 1, a>> : a \in {0, 1} }
        \cup { <<CodeReleaseN, 2, a, b>> : a \in {0, 1}, b \in {1, 2} }

\* History of SpecRc: the record of Before and the instruction dispatched
\* before this one.
BeforeRc(op, ins) ==
    [op |-> op, ins |-> ins, path |-> "rc", pc |-> pc, stack |-> stack,
     regs |-> regs, rc |-> rc, freeCount |-> freeCount, frames |-> frames,
     buf |-> Buffer, prevOp |-> last.op, prevIns |-> last.ins, prevRc |-> last.rc,
     prevFreeCount |-> last.freeCount]

\* CASE(Retain), vm.c lines 1585-1589
Retain(ins) ==
    /\ Running
    /\ Fetch(ins, RcMenu(CodeRetain))
    /\ At(ins, 0) = CodeRetain
    /\ InBuffer(pc + 2)
    /\ \E h \in Deref(Heap, regs[stack + At(ins, 1)]) :
          SetHeap(retain(h, regs[stack + At(ins, 1)]))
    /\ NEXT(pc + 2, stack)
    /\ last' = BeforeRc("Retain", ins)
    /\ inst' = <<>>
    /\ UNCHANGED <<regs, panicVars, frames, valueVars, fiberVars, progVars>>

\* CASE(Release), vm.c lines 847-851
Release(ins) ==
    /\ Running
    /\ Fetch(ins, RcMenu(CodeRelease))
    /\ At(ins, 0) = CodeRelease
    /\ InBuffer(pc + 2)
    /\ \E h \in Deref(Heap, regs[stack + At(ins, 1)]) :
          SetHeap(release(h, regs[stack + At(ins, 1)]))
    /\ NEXT(pc + 2, stack)
    /\ last' = BeforeRc("Release", ins)
    /\ inst' = <<>>
    /\ UNCHANGED <<regs, panicVars, frames, valueVars, fiberVars, progVars>>

\* The heaps after release(vm, stack[pc[i]]) for i = k .. 2 + numLocals - 1,
\* vm.c lines 854-857
RECURSIVE ReleaseLoop(_, _, _)
ReleaseLoop(h, ins, k) ==
    IF k >= 2 + At(ins, 1) THEN {h}
    ELSE UNION { ReleaseLoop(release(h0, regs[stack + At(ins, k)]), ins, k + 1) :
                    h0 \in Deref(h, regs[stack + At(ins, k)]) }

\* CASE(ReleaseN), vm.c lines 852-860
ReleaseN(ins) ==
    /\ Running
    /\ Fetch(ins, ReleaseNMenu)
    /\ At(ins, 0) = CodeReleaseN
    /\ InBuffer(pc + 2 + At(ins, 1))
    /\ \E h \in ReleaseLoop(Heap, ins, 2) : SetHeap(h)
    /\ NEXT(pc + 2 + At(ins, 1), stack)
    /\ last' = BeforeRc("ReleaseN", ins)
    /\ inst' = <<>>
    /\ UNCHANGED <<regs, panicVars, frames, valueVars, fiberVars, progVars>>

InitRc ==
    /\ InitIdle
    /\ ValueIdle
    /\ pc = instPtr + MaxPc - 7
    /\ stack = 0
    /\ \E a \in RcValues, b \in RcValues :
          regs = [i \in 0 .. StackLen - 1 |->
                     IF i = 0 THEN a ELSE IF i = 1 THEN b ELSE VALUE_NONE]
    /\ frames = <<>>
    /\ rc \in [Objs -> {1, 2}]

NextRc ==
    \/ \E ins \in RcMenu(CodeRetain) : Retain(ins)
    \/ \E ins \in RcMenu(CodeRelease) : Release(ins)
    \/ \E ins \in ReleaseNMenu : ReleaseN(ins)
    \/ \E ins \in CopyMenu(CodeCopy) : Copy(ins)
    \/ \E ins \in CopyMenu(CodeCopyReleaseDst) : CopyReleaseDst(ins)
    \/ \E ins \in CopyMenu(CodeCopyRetainSrc) : CopyRetainSrc(ins)
    \/ \E ins \in CopyMenu(CodeCopyRetainRelease) : CopyRetainRelease(ins)

SpecRc == InitRc /\ [][NextRc]_vars

(***************************************************************************)
(* Properties of the reference counts (checked under SpecRc).              *)
(***************************************************************************)
\* Release r was dispatched right after Retain r, with the same r.
RetainThenRelease ==
    /\ last.op = "Release"
    /\ last.prevOp = "Retain"
    /\ At(last.ins, 1) = At(last.prevIns, 1)

\* C11 as stated: retain(v) followed by release(v) leaves every object's rc
\* and its finalizer count unchanged, for every value v a register can hold:
\* no object is freed by the pair.
C11_AsStated ==
    RetainThenRelease => (rc = last.prevRc /\ freeCount = last.prevFreeCount)

\* The part of C11 the code keeps: the pair restores every count and frees
\* nothing when v is not a pointer or its object had not been freed.
C11_LiveValue ==
    (RetainThenRelease /\ Live([rc |-> last.prevRc, freeCount |-> last.prevFreeCount],
                               last.regs[last.stack + At(last.ins, 1)]))
        => (rc = last.prevRc /\ freeCount = last.prevFreeCount)

\* The value-preserving case happens: a live object with count 1 is retained
\* and released and is left alive with count 1.
C11_LiveWitness ==
    /\ RetainThenRelease
    /\ last.regs[last.stack + At(last.ins, 1)] = VALUE_PTR(1)
    /\ last.prevRc[1] = 1
    /\ rc[1] = 1
    /\ freeCount[1] = 0

\* C12 as stated: over any sequence of Retain, Release, ReleaseN and copy
\* opcodes the finalizer zFreeObject runs at most once per object, and a
\* Release runs it exactly when it takes the count of the register's object
\* from 1 to 0.
C12_AsStated ==
    /\ \A o \in Objs : freeCount[o] <= 1
    /\ (last.op = "Release") =>
          \A o \in Objs :
              (freeCount[o] # last.freeCount[o])
                  <=> /\ last.regs[last.stack + At(last.ins, 1)] = VALUE_PTR(o)
                      /\ last.rc[o] = 1
                      /\ rc[o] = 0

\* Copy 0,1 on an object of count 1, Release 0, Release 1 ran and the
\* finalizer of the object was invoked twice.
C12_FinalizedTwice ==
    /\ last.op = "Release"
    /\ last.prevOp = "Release"
    /\ At(last.prevIns, 1) = 0
    /\ At(last.ins, 1) = 1
    /\ regs[0] = VALUE_PTR(1)
    /\ regs[1] = VALUE_PTR(1)
    /\ last.prevRc[1] = 1
    /\ last.prevFreeCount[1] = 0
    /\ freeCount[1] = 2

(***************************************************************************)
(* Type compatibility and CallTypeCheck.                                   *)
(*                                                                         *)
(* The SEMA_TYPE_* ids are defined in vm.h; vm.c only compares them, so    *)
(* the model depends on their being distinct and nothing else.  The type   *)
(* table and the resolved function signatures are filled by the compiler:  *)
(* the model fixes a small content for both.                               *)
(***************************************************************************)
SEMA_TYPE_ANY          == 0
SEMA_TYPE_STRING       == 4
SEMA_TYPE_STATICSTRING == 15
SEMA_TYPE_DYNAMIC      == 17

SemaTypeIds == 0 .. MaxSemaType

\* Variant: any string type is accepted where a static string is expected.
isTypeSymCompat_symmetric(typeSymId, cstrType) ==
    IF typeSymId = cstrType THEN TRUE
    ELSE IF cstrType = SEMA_TYPE_ANY \/ cstrType = SEMA_TYPE_DYNAMIC THEN TRUE
    ELSE IF \/ cstrType = SEMA_TYPE_STRING /\ typeSymId = SEMA_TYPE_STATICSTRING
            \/ cstrType = SEMA_TYPE_STATICSTRING /\ typeSymId = SEMA_TYPE_STRING
         THEN TRUE
    ELSE FALSE

\* isTypeSymCompat(typeSymId, cstrType), vm.c lines 253-264
isTypeSymCompat(typeSymId, cstrType) ==
    IF typeSymId = cstrType THEN TRUE
    ELSE IF cstrType = SEMA_TYPE_ANY \/ cstrType = SEMA_TYPE_DYNAMIC THEN TRUE
    ELSE IF cstrType = SEMA_TYPE_STRING /\ typeSymId = SEMA_TYPE_STATICSTRING THEN TRUE
    ELSE FALSE

\* ((VmType*)vm->types.buf)[typeId].typeSymId: number, none, boolean and
\* static string have their builtin sema types, object 1 is a heap string,
\* every other object has a sema type of its own.
VmTypeSymId(typeId) ==
    CASE typeId = TYPE_NUMBER -> 2
      [] typeId = TAG_NONE -> 10
      [] typeId = TAG_BOOLEAN -> 1
      [] typeId = TAG_STATIC_ASTRING -> SEMA_TYPE_STATICSTRING
      [] typeId = HeadTypeId(1) -> SEMA_TYPE_STRING
      [] OTHER -> 6 + (typeId - HeadTypeId(1))

\* getResolvedFuncSig(vm, id).paramPtr[0 .. paramLen - 1], vm.c line 280
getResolvedFuncSig(id) ==
    CASE id = 0 -> <<>>
      [] id = 1 -> <<2, SEMA_TYPE_STRING>>
      [] id = 2 -> <<SEMA_TYPE_ANY, SEMA_TYPE_DYNAMIC>>
      [] id = 3 -> <<SEMA_TYPE_STATICSTRING>>
      [] id = 4 -> <<2>>
      [] OTHER -> <<VmTypeSymId(HeadTypeId(2)), 10>>

FuncSigIds == 0 .. 5

TypeCheckValues ==
    {VALUE_NUMBER(Num(1)), VALUE_NONE, STATIC_ASTRING_MASK} \cup { VALUE_PTR(o) : o \in Objs }

CallTypeCheckMenu ==
    { <<CodeCallTypeCheck, argStartReg, numArgs, sig, 0>> :
          argStartReg \in {0, 1}, numArgs \in {0, 1, 2}, sig \in FuncSigIds }

\* zPanicIncompatibleFuncSig(vm, funcId, args, numArgs, funcSigId): sets the
\* fiber's panic to a formatted message
zPanicIncompatibleFuncSig ==
    /\ panicType' = "PANIC_MSG"
    /\ panicMsg' = "incompatible"

\* The first parameter index in i .. paramLen - 1 whose argument fails the
\* check, paramLen if there is none: the loop at vm.c lines 962-974
RECURSIVE FirstIncompat(_, _, _)
FirstIncompat(sig, argStart, i) ==
    IF i >= Len(sig) THEN Len(sig)
    ELSE IF ~isTypeSymCompat(VmTypeSymId(getTypeId(regs[argStart + i])), sig[i + 1])
         THEN i
    ELSE FirstIncompat(sig, argStart, i + 1)

\* Variant: pc is advanced before the arguments are checked.
CallTypeCheck_advancesFirst(ins) ==
    /\ Running
    /\ Fetch(ins, CallTypeCheckMenu)
    /\ At(ins, 0) = CodeCallTypeCheck
    /\ InBuffer(pc + 5)
    /\ LET argStartReg == At(ins, 1)
           numArgs     == At(ins, 2)
           funcSig     == getResolvedFuncSig(READ_U16(ins, 3))
       IN  /\ \A i \in 0 .. Len(funcSig) - 1 : Live(Heap, regs[stack + argStartReg + i])
           /\ IF numArgs # Len(funcSig)
              THEN /\ zPanicIncompatibleFuncSig
                   /\ RETURN("RES_CODE_PANIC", pc + 5, stack)
                   /\ last' = Before("CallTypeCheck", ins, "numArgs")
              ELSE IF FirstIncompat(funcSig, stack + argStartReg, 0) < Len(funcSig)
              THEN /\ zPanicIncompatibleFuncSig
                   /\ RETURN("RES_CODE_PANIC", pc + 5, stack)
                   /\ last' = Before("CallTypeCheck", ins, "incompatible")
              ELSE /\ NEXT(pc + 5, stack)
                   /\ last' = Before("CallTypeCheck", ins, "ok")
                   /\ UNCHANGED panicVars
    /\ inst' = <<>>
    /\ UNCHANGED <<regs, heapVars, frames, valueVars, fiberVars, progVars>>

\* CASE(CallTypeCheck), vm.c lines 946-977
CallTypeCheck(ins) ==
    /\ Running
    /\ Fetch(ins, CallTypeCheckMenu)
    /\ At(ins, 0) = CodeCallTypeCheck
    /\ InBuffer(pc + 5)
    /\ LET argStartReg == At(ins, 1)
           numArgs     == At(ins, 2)
           funcSig     == getResolvedFuncSig(READ_U16(ins, 3))
       IN  /\ \A i \in 0 .. Len(funcSig) - 1 : Live(Heap, regs[stack + argStartReg + i])
           /\ IF numArgs # Len(funcSig)
              THEN /\ zPanicIncompatibleFuncSig
                   /\ RETURN("RES_CODE_PANIC", pc, stack)
                   /\ last' = Before("CallTypeCheck", ins, "numArgs")
              ELSE IF FirstIncompat(funcSig, stack + argStartReg, 0) < Len(funcSig)
              THEN /\ zPanicIncompatibleFuncSig
                   /\ RETURN("RES_CODE_PANIC", pc, stack)
                   /\ last' = Before("CallTypeCheck", ins, "incompatible")
              ELSE /\ NEXT(pc + 5, stack)
                   /\ last' = Before("CallTypeCheck", ins, "ok")
                   /\ UNCHANGED panicVars
    /\ inst' = <<>>
    /\ UNCHANGED <<regs, heapVars, frames, valueVars, fiberVars, progVars>>

(***************************************************************************)
(* SpecTypeCheck: CallTypeCheck instructions over registers 0 .. 2 holding *)
(* a number, none, a static string or a pointer.                           *)
(***************************************************************************)
InitTypeCheck ==
    /\ InitIdle
    /\ ValueIdle
    /\ pc = instPtr + MaxPc - 10
    /\ stack = 0
    /\ \E a \in TypeCheckValues, b \in TypeCheckValues, c \in TypeCheckValues :
          regs = [i \in 0 .. StackLen - 1 |->
                     IF i = 0 THEN a ELSE IF i = 1 THEN b ELSE IF i = 2 THEN c
                     ELSE VALUE_NONE]
    /\ frames = <<>>
    /\ rc = [o \in Objs |-> 1]

NextTypeCheck == \E ins \in CallTypeCheckMenu : CallTypeCheck(ins)

SpecTypeCheck == InitTypeCheck /\ [][NextTypeCheck]_vars

\* The sema type of the value a register held before the last instruction.
LastSemaType(r) == VmTypeSymId(getTypeId(last.regs[r]))

\* arg may be passed where cstr is declared.
Compatible(arg, cstr) ==
    \/ arg = cstr
    \/ cstr \in {SEMA_TYPE_ANY, SEMA_TYPE_DYNAMIC}
    \/ cstr = SEMA_TYPE_STRING /\ arg = SEMA_TYPE_STATICSTRING

\* The arguments of the last CallTypeCheck fit its signature.
LastCallFits ==
    LET sig  == getResolvedFuncSig(READ_U16(last.ins, 3))
        args == last.stack + At(last.ins, 1)
    IN  /\ At(last.ins, 2) = Len(sig)
        /\ \A i \in 1 .. Len(sig) : Compatible(LastSemaType(args + i - 1), sig[i])

\* C13: CallTypeCheck continues at pc + 5 if and only if numArgs equals the
\* signature's paramLen and every argument's sema type is compatible with
\* its parameter type; otherwise the loop returns PANIC with pc (and
\* vm->curPc) still at the CallTypeCheck.  No register is modified.
C13_CallTypeCheck ==
    (last.op = "CallTypeCheck") =>
        /\ regs = last.regs
        /\ stack = last.stack
        /\ IF LastCallFits
           THEN res = "RUNNING" /\ pc = last.pc + 5
           ELSE /\ res = "RES_CODE_PANIC"
                /\ pc = last.pc
                /\ curPc = last.pc
                /\ panicType # "PANIC_NONE"

\* A number and a number are passed where (number, string) is declared:
\* the second argument fails and the loop has returned PANIC.
C13_Witness ==
    /\ last.op = "CallTypeCheck"
    /\ last.path = "incompatible"
    /\ READ_U16(last.ins, 3) = 1
    /\ At(last.ins, 1) = 0
    /\ last.regs[0] = VALUE_NUMBER(Num(1))
    /\ last.regs[1] = VALUE_NUMBER(Num(1))
    /\ res = "RES_CODE_PANIC"
    /\ pc = last.pc

\* A number and a static string pass (number, string) and the loop goes on.
C13_PassWitness ==
    /\ last.op = "CallTypeCheck"
    /\ READ_U16(last.ins, 3) = 1
    /\ At(last.ins, 1) = 0
    /\ last.regs[0] = VALUE_NUMBER(Num(1))
    /\ last.regs[1] = STATIC_ASTRING_MASK
    /\ res = "RUNNING"
    /\ pc = last.pc + 5

(***************************************************************************)
(* SpecCompat: isTypeSymCompat applied to every pair of sema type ids in   *)
(* 0 .. MaxSemaType.  intIn is the argument's type, intVal the constraint, *)
(* intOut the result.                                                      *)
(***************************************************************************)
InitCompat ==
    /\ InitIdle
    /\ pc = instPtr
    /\ stack = 0
    /\ regs = [i \in 0 .. StackLen - 1 |-> VALUE_NONE]
    /\ frames = <<>>
    /\ rc = [o \in Objs |-> 1]
    /\ intIn \in SemaTypeIds
    /\ intVal \in SemaTypeIds
    /\ intOut = 0
    /\ forI = NoIndex

ApplyIsTypeSymCompat ==
    /\ last.op = "none"
    /\ intOut' = isTypeSymCompat(intIn, intVal)
    /\ last' = [NoLast EXCEPT !.op = "isTypeSymCompat"]
    /\ UNCHANGED <<loopVars, panicVars, heapVars, frames, progVars, fiberVars, intIn, intVal, forI>>

NextCompat == ApplyIsTypeSymCompat

SpecCompat == InitCompat /\ [][NextCompat]_vars

\* C14: isTypeSymCompat(arg, cstr) is true exactly when arg = cstr, or cstr
\* is ANY or DYNAMIC, or cstr is STRING and arg is STATICSTRING; it is false
\* for every other pair.
C14_IsTypeSymCompat ==
    (last.op = "isTypeSymCompat") =>
        /\ intOut \in BOOLEAN
        /\ intOut <=> \/ intIn = intVal
                      \/ intVal = SEMA_TYPE_ANY
                      \/ intVal = SEMA_TYPE_DYNAMIC
                      \/ intVal = SEMA_TYPE_STRING /\ intIn = SEMA_TYPE_STATICSTRING

\* A static string is accepted as a string, and a string is refused as a
\* static string.
C14_Witness ==
    /\ last.op = "isTypeSymCompat"
    /\ \/ intIn = SEMA_TYPE_STATICSTRING /\ intVal = SEMA_TYPE_STRING /\ intOut = TRUE
       \/ intIn = SEMA_TYPE_STRING /\ intVal = SEMA_TYPE_STATICSTRING /\ intOut = FALSE

(***************************************************************************)
(* Inline caches.  The specification SpecIC runs the loop over a program   *)
(* kept in instBuf, so that a byte the loop writes into an instruction is  *)
(* what a later dispatch of that instruction reads.  An object has two     *)
(* fields; the field symbol table maps (type, symbol) to an offset, or to  *)
(* NULL_U8 when the type has no such field.                                *)
(***************************************************************************)
NULL_U8 == 255

\* READ_I16(offset), vm.c line 496
READ_I16(ins, offset) ==
    IF READ_U16(ins, offset) >= 32768 THEN READ_U16(ins, offset) - 65536
    ELSE READ_U16(ins, offset)

\* The int16 n as the two bytes READ_I16 reads
I16Bytes(n) == U16Bytes(IF n < 0 THEN n + 65536 ELSE n)

\* The n bytes at pc: the bytes a deoptimisation has just left there, else
\* the buffer's.
Loaded(n) ==
    IF inst # <<>> THEN (IF Len(inst) = n THEN {inst} ELSE {})
    ELSE IF pc - instPtr + n <= Len(instBuf)
         THEN { SubSeq(instBuf, pc - instPtr + 1, pc - instPtr + n) }
    ELSE {}

\* zGetFieldOffsetFromTable(vm, typeId, symId): symbol 0 is a field of both
\* modelled types, symbol 1 of the first only.
zGetFieldOffsetFromTable(typeId, symId) ==
    CASE symId = 0 /\ typeId = HeadTypeId(1) -> 0
      [] symId = 0 /\ typeId = HeadTypeId(2) -> 1
      [] symId = 1 /\ typeId = HeadTypeId(1) -> 1
      [] OTHER -> NULL_U8

\* Variant: the offset is looked up in the first type, whatever the object's.
getFieldOffset_ignoresType(obj, symId) == zGetFieldOffsetFromTable(HeadTypeId(1), symId)

\* getFieldOffset(vm, obj, symId), vm.c lines 244-251: the symbol's most
\* recently used (type, offset) pair is an entry of the table.
getFieldOffset(obj, symId) == zGetFieldOffsetFromTable(HeadTypeId(obj), symId)

\* objectGetField(obj, idx), vm.c lines 103-105
objectGetField(obj, idx) == fields[obj][idx + 1]

\* zGetFieldFallback(vm, obj, nameId): the value found by name
zGetFieldFallback == {VALUE_NONE, VALUE_NUMBER(Num(1))}

\* panicFieldMissing(vm), vm.c lines 454-456
panicFieldMissing == panicStaticMsg("Field not found in value.")

\* A retain that would take the count of val's object past MaxRc is left out.
RetainInBound(val) ==
    VALUE_IS_POINTER(val) => rc[VALUE_AS_HEAPOBJECT(val)] < MaxRc

\* FIELD_BODY(v), vm.c lines 1112-1134; icCode is FIELD_BODY_IC_v and
\* retains says whether FIELD_BODY_END_v is retain(vm, stack[dst]).
FIELD_BODY(name, ins, icCode, retains) ==
    LET left  == At(ins, 1)
        dst   == At(ins, 2)
        symId == READ_U16(ins, 3)
        recv  == regs[stack + left]
    IN  IF VALUE_IS_POINTER(recv)
        THEN LET obj    == VALUE_AS_HEAPOBJECT(recv)
                 offset == getFieldOffset(obj, symId)
             IN  /\ Live(Heap, recv)
                 /\ \E val \in (IF offset # NULL_U8 THEN {objectGetField(obj, offset)}
                                ELSE zGetFieldFallback) :
                       /\ regs' = [regs EXCEPT ![stack + dst] = val]
                       /\ IF retains
                          THEN /\ Live(Heap, val)
                               /\ RetainInBound(val)
                               /\ SetHeap(retain(Heap, val))
                          ELSE UNCHANGED heapVars
                 /\ instBuf' = IF offset # NULL_U8
                               THEN WriteInst(pc, <<icCode>> \o SubSeq(ins, 2, 5)
                                                  \o U16Bytes(HeadTypeId(obj)) \o <<offset>>)
                               ELSE instBuf
                 /\ NEXT(pc + 8, stack)
                 /\ last' = Before(name, ins, IF offset # NULL_U8 THEN "found" ELSE "fallback")
                 /\ UNCHANGED panicVars
        ELSE /\ panicFieldMissing
             /\ RETURN("RES_CODE_PANIC", pc, stack)
             /\ UNCHANGED instBuf
             /\ last' = Before(name, ins, "panic")
             /\ UNCHANGED <<regs, heapVars>>

\* CASE(Field), vm.c lines 1111-1138
Field(ins) ==
    /\ Running
    /\ At(ins, 0) = CodeField
    /\ FIELD_BODY("Field", ins, CodeFieldIC, FALSE)
    /\ inst' = <<>>
    /\ UNCHANGED <<frames, valueVars, fiberVars, fields>>

\* CASE(FieldRetain), vm.c lines 1157-1161
FieldRetain(ins) ==
    /\ Running
    /\ At(ins, 0) = CodeFieldRetain
    /\ FIELD_BODY("FieldRetain", ins, CodeFieldRetainIC, TRUE)
    /\ inst' = <<>>
    /\ UNCHANGED <<frames, valueVars, fiberVars, fields>>

\* CASE(FieldIC), vm.c lines 1139-1156
FieldIC(ins) ==
    /\ Running
    /\ At(ins, 0) = CodeFieldIC
    /\ LET recv == regs[stack + At(ins, 1)]
           dst  == At(ins, 2)
       IN  IF VALUE_IS_POINTER(recv)
           THEN LET obj == VALUE_AS_HEAPOBJECT(recv)
                IN  /\ Live(Heap, recv)
                    /\ IF HeadTypeId(obj) = READ_U16(ins, 5)
                       THEN /\ At(ins, 7) < Len(fields[obj])
                            /\ regs' = [regs EXCEPT ![stack + dst] = objectGetField(obj, At(ins, 7))]
                            /\ UNCHANGED instBuf
                            /\ NEXT(pc + 8, stack)
                            /\ last' = Before("FieldIC", ins, "cached")
                       ELSE \* Deoptimize.
                            /\ instBuf' = WriteInst(pc, [ins EXCEPT ![1] = CodeField])
                            /\ NEXT(pc, stack)
                            /\ last' = Before("FieldIC", ins, "deopt")
                            /\ UNCHANGED regs
                    /\ UNCHANGED panicVars
           ELSE /\ panicFieldMissing
                /\ RETURN("RES_CODE_PANIC", pc, stack)
                /\ UNCHANGED instBuf
                /\ last' = Before("FieldIC", ins, "panic")
                /\ UNCHANGED regs
    /\ inst' = <<>>
    /\ UNCHANGED <<heapVars, frames, valueVars, fiberVars, fields>>

\* CASE(FieldRetainIC), vm.c lines 1162-1184
FieldRetainIC(ins) ==
    /\ Running
    /\ At(ins, 0) = CodeFieldRetainIC
    /\ LET recv == regs[stack + At(ins, 1)]
           dst  == At(ins, 2)
       IN  IF VALUE_IS_POINTER(recv)
           THEN LET obj == VALUE_AS_HEAPOBJECT(recv)
                IN  /\ Live(Heap, recv)
                    /\ IF HeadTypeId(obj) = READ_U16(ins, 5)
                       THEN /\ At(ins, 7) < Len(fields[obj])
                            /\ LET val == objectGetField(obj, At(ins, 7))
                               IN  /\ Live(Heap, val)
                                   /\ RetainInBound(val)
                                   /\ regs' = [regs EXCEPT ![stack + dst] = val]
                                   /\ SetHeap(retain(Heap, val))
                            /\ UNCHANGED instBuf
                            /\ NEXT(pc + 8, stack)
                            /\ last' = Before("FieldRetainIC", ins, "cached")
                       ELSE \* Deoptimize.
                            /\ instBuf' = WriteInst(pc, [ins EXCEPT ![1] = CodeFieldRetain])
                            /\ NEXT(pc, stack)
                            /\ last' = Before("FieldRetainIC", ins, "deopt")
                            /\ UNCHANGED <<regs, heapVars>>
                    /\ UNCHANGED panicVars
           ELSE /\ RETURN("RES_CODE_UNKNOWN", pc, stack)
                /\ UNCHANGED instBuf
                /\ last' = Before("FieldRetainIC", ins, "unknown")
                /\ UNCHANGED <<regs, heapVars, panicVars>>
    /\ inst' = <<>>
    /\ UNCHANGED <<frames, valueVars, fiberVars, fields>>

\* CASE(Jump), vm.c lines 843-846
Jump(ins) ==
    /\ Running
    /\ At(ins, 0) = CodeJump
    /\ InBuffer(pc + READ_I16(ins, 1))
    /\ NEXT(pc + READ_I16(ins, 1), stack)
    /\ last' = Before("Jump", ins, "jump")
    /\ inst' = <<>>
    /\ UNCHANGED <<regs, panicVars, heapVars, frames, valueVars, fiberVars, progVars>>

\* objectGetFieldPtr(obj, idx), vm.c lines 107-109: the fields after
\* *objectGetFieldPtr(obj, idx) = val
SetObjectField(obj, idx, val) == [fields EXCEPT ![obj][idx + 1] = val]

\* CASE(SetFieldRelease), vm.c lines 1415-1440
SetFieldRelease(ins) ==
    /\ Running
    /\ At(ins, 0) = CodeSetFieldRelease
    /\ LET recv  == regs[stack + At(ins, 1)]
           val   == regs[stack + At(ins, 2)]
           symId == At(ins, 3)
       IN  IF VALUE_IS_POINTER(recv)
           THEN LET obj    == VALUE_AS_HEAPOBJECT(recv)
                    offset == getFieldOffset(obj, symId)
                IN  /\ Live(Heap, recv)
                    /\ IF offset # NULL_U8
                       THEN LET h1 == release(Heap, objectGetField(obj, offset))
                            IN  /\ Live(Heap, objectGetField(obj, offset))
                                /\ Live(h1, recv)
                                /\ SetHeap(h1)
                                /\ fields' = SetObjectField(obj, offset, val)
                                /\ instBuf' = WriteInst(pc, <<CodeSetFieldReleaseIC>> \o SubSeq(ins, 2, 4)
                                                            \o U16Bytes(HeadTypeId(obj)) \o <<offset>>)
                                /\ NEXT(pc + 7, stack)
                                /\ last' = Before("SetFieldRelease", ins, "found")
                       ELSE /\ RETURN("RES_CODE_UNKNOWN", pc, stack)
                            /\ last' = Before("SetFieldRelease", ins, "unknown")
                            /\ UNCHANGED <<heapVars, progVars>>
           ELSE /\ RETURN("RES_CODE_UNKNOWN", pc, stack)
                /\ last' = Before("SetFieldRelease", ins, "unknown")
                /\ UNCHANGED <<heapVars, progVars>>
    /\ inst' = <<>>
    /\ UNCHANGED <<regs, panicVars, frames, valueVars, fiberVars>>

\* CASE(SetFieldReleaseIC), vm.c lines 1441-1460
SetFieldReleaseIC(ins) ==
    /\ Running
    /\ At(ins, 0) = CodeSetFieldReleaseIC
    /\ LET recv == regs[stack + At(ins, 1)]
       IN  IF VALUE_IS_POINTER(recv)
           THEN LET obj == VALUE_AS_HEAPOBJECT(recv)
                IN  /\ Live(Heap, recv)
                    /\ IF HeadTypeId(obj) = READ_U16(ins, 4)
                       THEN /\ At(ins, 6) < Len(fields[obj])
                            /\ LET h1 == release(Heap, objectGetField(obj, At(ins, 6)))
                               IN  /\ Live(Heap, objectGetField(obj, At(ins, 6)))
                                   /\ Live(h1, recv)
                                   /\ SetHeap(h1)
                            /\ fields' = SetObjectField(obj, At(ins, 6), regs[stack + At(ins, 2)])
                            /\ NEXT(pc + 7, stack)
                            /\ last' = Before("SetFieldReleaseIC", ins, "cached")
                            /\ UNCHANGED instBuf
                       ELSE \* Deoptimize.
                            /\ instBuf' = WriteInst(pc, [ins EXCEPT ![1] = CodeSetFieldRelease])
                            /\ NEXT(pc, stack)
                            /\ last' = Before("SetFieldReleaseIC", ins, "deopt")
                            /\ UNCHANGED <<heapVars, fields>>
           ELSE /\ RETURN("RES_CODE_UNKNOWN", pc, stack)
                /\ last' = Before("SetFieldReleaseIC", ins, "unknown")
                /\ UNCHANGED <<heapVars, progVars>>
    /\ inst' = <<>>
    /\ UNCHANGED <<regs, panicVars, frames, valueVars, fiberVars>>

\* The Value a native function returns: fn(vm, args, numArgs), vm.c line 1014,
\* and fn(vm, recv, args, numArgs), vm.c line 890
NativeResults == {VALUE_INTERRUPT, VALUE_NONE, VALUE_NUMBER(Num(1))}

\* Variant: the result is stored before the interrupt sentinel is tested.
AfterNative_storesFirst(name, ins, newStack, retSlot, len, fnRes) ==
    LET numRet == At(ins, 3)
    IN  /\ regs' = IF numRet = 1 THEN [regs EXCEPT ![retSlot] = fnRes] ELSE regs
        /\ IF fnRes = VALUE_INTERRUPT
           THEN /\ RETURN("RES_CODE_PANIC", pc, stack)
                /\ last' = [fnRes |-> fnRes] @@ Before(name, ins, "interrupt")
           ELSE IF numRet <= 1
           THEN /\ pc' = pc + len
                /\ curStack' = newStack
                /\ last' = [fnRes |-> fnRes] @@ Before(name, ins, "returned")
                /\ UNCHANGED <<stack, res, curPc>>
           ELSE /\ res' = "FATAL"
                /\ curStack' = newStack
                /\ last' = [fnRes |-> fnRes] @@ Before(name, ins, "fatal")
                /\ UNCHANGED <<pc, stack, curPc>>

\* The part of CallNativeFuncIC (vm.c lines 1015-1032) and of
\* CallObjNativeFuncIC (vm.c lines 891-913) after the native function has
\* returned fnRes; vm->curStack was set to newStack before the call.
AfterNative(name, ins, newStack, retSlot, len, fnRes) ==
    LET numRet == At(ins, 3)
    IN  IF fnRes = VALUE_INTERRUPT
        THEN /\ RETURN("RES_CODE_PANIC", pc, stack)
             /\ last' = [fnRes |-> fnRes] @@ Before(name, ins, "interrupt")
             /\ UNCHANGED regs
        ELSE IF numRet = 1
        THEN /\ regs' = [regs EXCEPT ![retSlot] = fnRes]
             /\ pc' = pc + len
             /\ curStack' = newStack
             /\ last' = [fnRes |-> fnRes] @@ Before(name, ins, "returned")
             /\ UNCHANGED <<stack, res, curPc>>
        ELSE IF numRet = 0
        THEN /\ pc' = pc + len
             /\ curStack' = newStack
             /\ last' = [fnRes |-> fnRes] @@ Before(name, ins, "returned")
             /\ UNCHANGED <<regs, stack, res, curPc>>
        ELSE \* zFatal()
             /\ res' = "FATAL"
             /\ curStack' = newStack
             /\ last' = [fnRes |-> fnRes] @@ Before(name, ins, "fatal")
             /\ UNCHANGED <<regs, pc, stack, curPc>>

\* CASE(CallNativeFuncIC), vm.c lines 1006-1033
CallNativeFuncIC(ins) ==
    /\ Running
    /\ At(ins, 0) = CodeCallNativeFuncIC
    /\ LET startLocal == At(ins, 1)
           newStack   == stack + startLocal
       IN  \E fnRes \in NativeResults :
              AfterNative("CallNativeFuncIC", ins, newStack, newStack, CALL_SYM_INST_LEN, fnRes)
    /\ inst' = <<>>
    /\ UNCHANGED <<panicVars, heapVars, frames, valueVars, fiberVars, progVars>>

\* CASE(CallObjNativeFuncIC), vm.c lines 879-919
CallObjNativeFuncIC(ins) ==
    /\ Running
    /\ At(ins, 0) = CodeCallObjNativeFuncIC
    /\ LET startLocal   == At(ins, 1)
           numArgs      == At(ins, 2)
           recv         == regs[stack + startLocal + numArgs + 4 - 1]
           typeId       == getTypeId(recv)
           cachedTypeId == READ_U16(ins, 14)
       IN  /\ Live(Heap, recv)
           /\ IF typeId = cachedTypeId
              THEN /\ \E fnRes \in NativeResults :
                         AfterNative("CallObjNativeFuncIC", ins, stack, stack + startLocal,
                                     CALL_OBJ_SYM_INST_LEN, fnRes)
                   /\ UNCHANGED instBuf
              ELSE \* Deoptimize.
                   /\ instBuf' = WriteInst(pc, [ins EXCEPT ![1] = CodeCallObjSym])
                   /\ NEXT(pc, stack)
                   /\ last' = Before("CallObjNativeFuncIC", ins, "deopt")
                   /\ UNCHANGED regs
    /\ inst' = <<>>
    /\ UNCHANGED <<panicVars, heapVars, frames, valueVars, fiberVars, fields>>

\* zCallObjSym(vm, pc, stack, recv, typeId, symId, startLocal, numArgs,
\* numRet, anySelfFuncSigId): the method is missing (a panic), or it is a
\* native function that has run; the helper may cache the receiver's type in
\* the instruction.
zCallObjSymCodes == {"RES_CODE_PANIC", "RES_CODE_SUCCESS"}

\* CASE(CallObjSym), vm.c lines 861-878
CallObjSym(ins) ==
    /\ Running
    /\ At(ins, 0) = CodeCallObjSym
    /\ LET startLocal == At(ins, 1)
           numArgs    == At(ins, 2)
           numRet     == At(ins, 3)
           recv       == regs[stack + startLocal + numArgs + 4 - 1]
           typeId     == getTypeId(recv)
       IN  /\ Live(Heap, recv)
           /\ \E code \in zCallObjSymCodes :
                 IF code # "RES_CODE_SUCCESS"
                 THEN /\ panicType' = "PANIC_MSG"
                      /\ panicMsg' = "zCallObjSym"
                      /\ RETURN(code, pc, stack)
                      /\ instBuf' = WriteInst(pc, ins)
                      /\ last' = Before("CallObjSym", ins, "panic")
                      /\ UNCHANGED regs
                 ELSE /\ \E fnRes \in NativeResults \ {VALUE_INTERRUPT} :
                            regs' = IF numRet = 1
                                    THEN [regs EXCEPT ![stack + startLocal] = fnRes]
                                    ELSE regs
                      /\ \E cached \in BOOLEAN :
                            instBuf' = IF cached
                                       THEN WriteInst(pc, <<CodeCallObjNativeFuncIC>>
                                                \o SubSeq(ins, 2, 14) \o U16Bytes(typeId))
                                       ELSE WriteInst(pc, ins)
                      /\ NEXT(pc + CALL_OBJ_SYM_INST_LEN, stack)
                      /\ last' = Before("CallObjSym", ins, "called")
                      /\ UNCHANGED panicVars
    /\ inst' = <<>>
    /\ UNCHANGED <<heapVars, frames, valueVars, fiberVars, fields>>

\* The history of the loop variables after one more entry of a loop body, with
\* the counter and the user binding in registers c and u
Entered(c, u) ==
    IF Len(seen) < MaxSeen THEN Append(seen, <<regs'[c], regs'[u]>>) ELSE seen

\* Variant: the counter and the user binding are set before start == end is tested.
ForRangeInit_setsFirst(ins) ==
    /\ Running
    /\ At(ins, 0) = CodeForRangeInit
    /\ \A k \in 1 .. 3 : VALUE_IS_NUMBER(regs[stack + At(ins, k)])
    /\ LET start  == VALUE_AS_NUMBER(regs[stack + At(ins, 1)])
           end    == VALUE_AS_NUMBER(regs[stack + At(ins, 2)])
           step0  == VALUE_AS_NUMBER(regs[stack + At(ins, 3)])
           step   == IF DLess(step0, Num(0)) THEN DNeg(step0) ELSE step0
           regs1  == [regs EXCEPT ![stack + At(ins, 2)] = VALUE_NUMBER(end)]
           regs2  == [regs1 EXCEPT ![stack + At(ins, 3)] = VALUE_NUMBER(step)]
           offset == READ_U16(ins, 6)
       IN  IF ~DLess(start, end) /\ ~DLess(end, start)
           THEN /\ InBuffer(pc + offset + 7)
                /\ regs' = [[regs2 EXCEPT ![stack + At(ins, 4)] = VALUE_NUMBER(start)]
                                   EXCEPT ![stack + At(ins, 5)] = VALUE_NUMBER(start)]
                /\ NEXT(pc + offset + 7, stack)
                /\ last' = Before("ForRangeInit", ins, "empty")
                /\ UNCHANGED <<instBuf, seen>>
           ELSE /\ pc - instPtr + offset < Len(instBuf)
                /\ regs' = [[regs2 EXCEPT ![stack + At(ins, 4)] = VALUE_NUMBER(start)]
                                   EXCEPT ![stack + At(ins, 5)] = VALUE_NUMBER(start)]
                /\ instBuf' = WriteInst(pc + offset,
                                  <<IF DLess(start, end) THEN CodeForRange
                                    ELSE CodeForRangeReverse>>)
                /\ seen' = Entered(stack + At(ins, 4), stack + At(ins, 5))
                /\ NEXT(pc + 8, stack)
                /\ last' = Before("ForRangeInit", ins, "loop")
    /\ inst' = <<>>
    /\ UNCHANGED <<panicVars, heapVars, frames, valueVars, tryVars, coVars, fields>>

\* CASE(ForRangeInit), vm.c lines 1841-1865, for number operands
ForRangeInit(ins) ==
    /\ Running
    /\ At(ins, 0) = CodeForRangeInit
    /\ \A k \in 1 .. 3 : VALUE_IS_NUMBER(regs[stack + At(ins, k)])
    /\ LET start  == VALUE_AS_NUMBER(regs[stack + At(ins, 1)])
           end    == VALUE_AS_NUMBER(regs[stack + At(ins, 2)])
           step0  == VALUE_AS_NUMBER(regs[stack + At(ins, 3)])
           step   == IF DLess(step0, Num(0)) THEN DNeg(step0) ELSE step0
           regs1  == [regs EXCEPT ![stack + At(ins, 2)] = VALUE_NUMBER(end)]
           regs2  == [regs1 EXCEPT ![stack + At(ins, 3)] = VALUE_NUMBER(step)]
           offset == READ_U16(ins, 6)
       IN  IF ~DLess(start, end) /\ ~DLess(end, start)
           THEN /\ InBuffer(pc + offset + 7)
                /\ regs' = regs2
                /\ NEXT(pc + offset + 7, stack)
                /\ last' = Before("ForRangeInit", ins, "empty")
                /\ UNCHANGED <<instBuf, seen>>
           ELSE /\ pc - instPtr + offset < Len(instBuf)
                /\ regs' = [[regs2 EXCEPT ![stack + At(ins, 4)] = VALUE_NUMBER(start)]
                                   EXCEPT ![stack + At(ins, 5)] = VALUE_NUMBER(start)]
                /\ instBuf' = WriteInst(pc + offset,
                                  <<IF DLess(start, end) THEN CodeForRange
                                    ELSE CodeForRangeReverse>>)
                /\ seen' = Entered(stack + At(ins, 4), stack + At(ins, 5))
                /\ NEXT(pc + 8, stack)
                /\ last' = Before("ForRangeInit", ins, "loop")
    /\ inst' = <<>>
    /\ UNCHANGED <<panicVars, heapVars, frames, valueVars, tryVars, coVars, fields>>

(***************************************************************************)
(* SpecIC: one instruction with an inline cache (or ForRangeInit) at the   *)
(* start of the buffer, followed by a Jump back to it, so that the         *)
(* instruction is dispatched again after it has rewritten itself.  The     *)
(* buffer may hold the cached form from the start, left by an earlier run. *)
(* Register 0 holds the receiver of the field opcodes, registers 8 and 10  *)
(* the receiver of the method calls, register 1 the value to store,        *)
(* registers 3 .. 5 the range of ForRangeInit.                             *)
(***************************************************************************)
FieldMenu ==
    { <<code, 0, dst, sym, 0, 0, 0, 0>> :
          code \in {CodeField, CodeFieldRetain}, dst \in {0, 2}, sym \in {0, 1} }
    \cup { <<code, 0, dst, 0, 0>> \o U16Bytes(HeadTypeId(1)) \o <<0>> :
          code \in {CodeFieldIC, CodeFieldRetainIC}, dst \in {0, 2} }

SetFieldMenu ==
    { <<CodeSetFieldRelease, 0, 1, sym, 0, 0, 0>> : sym \in {0, 1} }
    \cup { <<CodeSetFieldReleaseIC, 0, 1, 0>> \o U16Bytes(HeadTypeId(1)) \o <<0>> }

CallNativeFuncICMenu ==
    { <<CodeCallNativeFuncIC, 6, 1, nr, 0, 0, 0, 0, 0, 0, 0, 0>> : nr \in {0, 1, 2} }

CallObjNativeFuncICMenu ==
    { <<CodeCallObjNativeFuncIC, 6, 1, nr, 0, 0, 0, 0, 0, 0, 0, 0, 0, 0>> \o U16Bytes(ty) :
          nr \in {0, 1, 2}, ty \in CachedTypeIds }

\* ForRangeInit over registers 3 .. 7; the loop's closing instruction, whose
\* opcode byte ForRangeInit sets, follows at pc + 8.
ForRangeMenu ==
    { <<CodeForRangeInit, 3, 4, 5, 6, 7, 8, 0, closing, 6, 5, 4, 7, 8, 0>> :
          closing \in {CodeForRange, CodeForRangeReverse} }

\* The instruction and a Jump back to its first byte
Looped(ins) == ins \o <<CodeJump>> \o I16Bytes(0 - Len(ins))

Programs ==
    { Looped(ins) : ins \in FieldMenu \cup SetFieldMenu \cup CallNativeFuncICMenu
                            \cup CallObjNativeFuncICMenu \cup CallFuncICMenu
                            \cup CallObjFuncICMenu }
    \cup ForRangeMenu

ICReceivers == {VALUE_NONE} \cup { VALUE_PTR(o) : o \in Objs }

InitIC ==
    /\ FiberIdle
    /\ inst = <<>>
    /\ res = "RUNNING"
    /\ curPc = instPtr
    /\ curStack = 0
    /\ panicType = "PANIC_NONE"
    /\ panicMsg = ""
    /\ freeCount = [o \in Objs |-> 0]
    /\ last = NoLast
    /\ ValueIdle
    /\ pc = instPtr
    /\ stack = 0
    /\ frames = <<>>
    /\ instBuf \in Programs
    /\ fields = [o \in Objs |-> <<VALUE_PTR((o % NumObjs) + 1), VALUE_NUMBER(Num(1))>>]
    /\ rc = [o \in Objs |-> 2]
    /\ \E recv \in ICReceivers, val \in {VALUE_NONE, VALUE_PTR(NumObjs)}, start \in {1, 3} :
          regs = [i \in 0 .. StackLen - 1 |->
                     CASE i \in {0, 8, 10} -> recv
                       [] i = 1 -> val
                       [] i = 3 -> VALUE_NUMBER(Num(start))
                       [] i = 4 -> VALUE_NUMBER(Num(2))
                       [] i = 5 -> VALUE_NUMBER(Num(0 - 1))
                       [] OTHER -> VALUE_NONE]

NextIC ==
    \/ \E ins \in Loaded(8) : Field(ins)
    \/ \E ins \in Loaded(8) : FieldIC(ins)
    \/ \E ins \in Loaded(8) : FieldRetain(ins)
    \/ \E ins \in Loaded(8) : FieldRetainIC(ins)
    \/ \E ins \in Loaded(7) : SetFieldRelease(ins)
    \/ \E ins \in Loaded(7) : SetFieldReleaseIC(ins)
    \/ \E ins \in Loaded(CALL_SYM_INST_LEN) : CallFuncIC(ins)
    \/ \E ins \in Loaded(CALL_SYM_INST_LEN) : CallNativeFuncIC(ins)
    \/ \E ins \in Loaded(CALL_OBJ_SYM_INST_LEN) : CallObjSym(ins)
    \/ \E ins \in Loaded(CALL_OBJ_SYM_INST_LEN) : CallObjNativeFuncIC(ins)
    \/ \E ins \in Loaded(CALL_OBJ_SYM_INST_LEN) : CallObjFuncIC(ins)
    \/ \E ins \in Loaded(8) : ForRangeInit(ins)
    \/ \E ins \in Loaded(3) : Jump(ins)

SpecIC == InitIC /\ [][NextIC]_vars

(***************************************************************************)
(* Properties of the inline caches (checked under SpecIC).                 *)
(***************************************************************************)
ICOps == {"FieldIC", "FieldRetainIC", "SetFieldReleaseIC", "CallObjNativeFuncIC",
          "CallObjFuncIC"}

\* The opcode an IC opcode rewrites itself to.
GenericCode(op) ==
    CASE op = "FieldIC" -> CodeField
      [] op = "FieldRetainIC" -> CodeFieldRetain
      [] op = "SetFieldReleaseIC" -> CodeSetFieldRelease
      [] OTHER -> CodeCallObjSym

\* The type id cached in the last instruction.
LastCachedType ==
    CASE last.op \in {"FieldIC", "FieldRetainIC"} -> READ_U16(last.ins, 5)
      [] last.op = "SetFieldReleaseIC" -> READ_U16(last.ins, 4)
      [] OTHER -> READ_U16(last.ins, 14)

\* The receiver the last instruction was given.
LastReceiver ==
    IF last.op \in {"CallObjNativeFuncIC", "CallObjFuncIC", "CallObjSym"}
    THEN last.regs[last.stack + At(last.ins, 1) + At(last.ins, 2) + 4 - 1]
    ELSE last.regs[last.stack + At(last.ins, 1)]

\* The bytes now in the buffer where the last instruction was fetched.
LastInstNow ==
    SubSeq(Buffer, last.pc - instPtr + 1, last.pc - instPtr + Len(last.ins))

\* The last instruction was an IC opcode in ops given an object whose type is
\* not the cached one.
CacheMiss(ops) ==
    /\ last.op \in ops
    /\ VALUE_IS_POINTER(LastReceiver)
    /\ getTypeId(LastReceiver) # LastCachedType

\* The last instruction has rewritten itself to its generic form and nothing
\* else has changed: the next dispatch reads the generic form at the same pc.
Deoptimized ==
    /\ res = "RUNNING"
    /\ pc = last.pc
    /\ stack = last.stack
    /\ regs = last.regs
    /\ rc = last.rc
    /\ freeCount = last.freeCount
    /\ LastInstNow = [last.ins EXCEPT ![1] = GenericCode(last.op)]

\* C15 as stated: when FieldIC, FieldRetainIC, SetFieldReleaseIC,
\* CallObjNativeFuncIC or CallObjFuncIC sees an object receiver whose type
\* differs from the cached type, it rewrites its opcode byte to the generic
\* form, leaves pc, the stack base, all registers and all reference counts
\* unchanged, and the next dispatch reads the generic form at the same pc.
C15_AsStated == CacheMiss(ICOps) => Deoptimized

\* The part of C15 the code keeps: the four IC opcodes other than
\* CallObjFuncIC deoptimize as stated.
C15_OtherOpcodes == CacheMiss(ICOps \ {"CallObjFuncIC"}) => Deoptimized

\* CallObjFuncIC was given an object whose type is not the cached one and
\* has entered the cached function.
C15_EnteredOnMiss ==
    /\ CacheMiss({"CallObjFuncIC"})
    /\ last.path = "frame"
    /\ pc = instPtr + READ_U32(last.ins, 8)

\* The field the last Field instruction names, in the receiver's type.
LastFieldOffset ==
    zGetFieldOffsetFromTable(getTypeId(LastReceiver), READ_U16(last.ins, 3))

\* The last instruction was a Field that went on, given an object.
FieldSucceeded ==
    /\ last.op = "Field"
    /\ res = "RUNNING"
    /\ VALUE_IS_POINTER(LastReceiver)

\* The Field instruction is now a FieldIC caching the receiver's type and
\* the field's offset, and the destination holds the field's value.
FieldCached ==
    /\ At(LastInstNow, 0) = CodeFieldIC
    /\ READ_U16(LastInstNow, 5) = getTypeId(LastReceiver)
    /\ At(LastInstNow, 7) = LastFieldOffset
    /\ LastFieldOffset < Len(fields[VALUE_AS_HEAPOBJECT(LastReceiver)])
    /\ regs[last.stack + At(last.ins, 2)]
          = fields[VALUE_AS_HEAPOBJECT(LastReceiver)][LastFieldOffset + 1]

\* A FieldIC given an object of the cached type reads the field at the
\* cached offset and goes on.
CachedPathTaken ==
    (last.op = "FieldIC" /\ VALUE_IS_POINTER(LastReceiver)
         /\ getTypeId(LastReceiver) = LastCachedType)
        => /\ last.path = "cached"
           /\ pc = last.pc + 8
           /\ regs[last.stack + At(last.ins, 2)]
                 = fields[VALUE_AS_HEAPOBJECT(LastReceiver)][At(last.ins, 7) + 1]

C17_AsStated ==
    (last.op = "CallObjFuncIC") =>
        /\ (last.path \in {"frame", "overflow"}) => getTypeId(LastReceiver) = LastCachedType
        /\ (getTypeId(LastReceiver) # LastCachedType) => Deoptimized

\* An object was the receiver, the cached type id was that of numbers, and
\* the cached function was entered.
C17_EnteredForObject ==
    /\ last.op = "CallObjFuncIC"
    /\ last.path = "frame"
    /\ LastReceiver = VALUE_PTR(1)
    /\ LastCachedType = TYPE_NUMBER

\* The opcodes that advance pc by a fixed length, and the paths on which
\* they do.
Advanced(ops) ==
    /\ last.op \in ops
    /\ last.path \in {"found", "fallback", "cached", "returned"}

Changed ==
    IF last.op = "none" \/ Len(last.buf) # Len(Buffer) THEN {}
    ELSE { k \in 1 .. Len(Buffer) : Buffer[k] # last.buf[k] }

\* The buffer positions of the last instruction's own bytes.
OwnBytes == { k \in 1 .. Len(Buffer) :
                 k - 1 >= last.pc - instPtr /\ k - 1 < last.pc - instPtr + Len(last.ins) }

SelfModifying == {"Field", "FieldRetain", "FieldIC", "FieldRetainIC", "SetFieldRelease",
                  "SetFieldReleaseIC", "CallObjNativeFuncIC", "CallObjFuncIC", "CallObjSym"}

\* C19 as stated: the instruction buffer is written only by inline-cache
\* self-modification, and every write falls inside the bytes of the
\* instruction being executed.
C19_AsStated ==
    /\ Changed \subseteq OwnBytes
    /\ (Changed # {}) => last.op \in SelfModifying

\* C19: the instruction buffer is written only by inline-cache
\* self-modification, whose writes fall inside the bytes of the instruction
\* being executed, and by ForRangeInit, which sets the byte at pc + offset
\* (the opcode of the instruction closing the loop) to ForRange or
\* ForRangeReverse.
C19_BufferWrites ==
    IF last.op = "ForRangeInit"
    THEN /\ Changed \subseteq {last.pc - instPtr + READ_U16(last.ins, 6) + 1}
         /\ \A k \in Changed : Buffer[k] \in {CodeForRange, CodeForRangeReverse}
    ELSE /\ Changed \subseteq OwnBytes
         /\ (Changed # {}) => last.op \in SelfModifying

\* ForRangeInit has changed the opcode byte of the instruction after it.
C19_Witness ==
    /\ last.op = "ForRangeInit"
    /\ Changed = {9}
    /\ OwnBytes = 1 .. 8
    /\ Buffer[9] = CodeForRangeReverse

NativeOps == {"CallNativeFuncIC", "CallObjNativeFuncIC"}

\* The register the native call's result goes to: stack[startLocal]
LastReturnSlot == last.stack + At(last.ins, 1)

\* The length of the last native call instruction.
LastCallLen ==
    IF last.op = "CallNativeFuncIC" THEN CALL_SYM_INST_LEN ELSE CALL_OBJ_SYM_INST_LEN

\* C20: in CallNativeFuncIC and CallObjNativeFuncIC, if the native function
\* returns the interrupt sentinel the loop returns PANIC without writing the
\* return slot and without advancing pc; otherwise the result is written to
\* stack[startLocal] exactly when numRet = 1, nothing is written when
\* numRet = 0, and pc advances past the call with the stack base unchanged.
\* (numRet of 2 or more ends in zFatal with no register written.)
C20_NativeReturn ==
    (last.op \in NativeOps /\ last.path # "deopt") =>
        /\ stack = last.stack
        /\ IF last.fnRes = VALUE_INTERRUPT
           THEN /\ res = "RES_CODE_PANIC"
                /\ pc = last.pc
                /\ curPc = last.pc
                /\ regs = last.regs
           ELSE IF At(last.ins, 3) = 1
           THEN /\ res = "RUNNING"
                /\ regs = [last.regs EXCEPT ![LastReturnSlot] = last.fnRes]
                /\ pc = last.pc + LastCallLen
           ELSE IF At(last.ins, 3) = 0
           THEN /\ res = "RUNNING"
                /\ regs = last.regs
                /\ pc = last.pc + LastCallLen
           ELSE res = "FATAL" /\ regs = last.regs

\* A native method asked for one return value has returned the interrupt
\* sentinel: the loop has returned PANIC and the return slot is untouched.
C20_Witness ==
    /\ last.op = "CallObjNativeFuncIC"
    /\ last.path = "interrupt"
    /\ last.fnRes = VALUE_INTERRUPT
    /\ At(last.ins, 3) = 1
    /\ res = "RES_CODE_PANIC"
    /\ regs[LastReturnSlot] = VALUE_NONE

(***************************************************************************)
(* Try-frames: PushTry, PopTry and Throw, vm.c lines 1495-1532.            *)
(*                                                                         *)
(* vm->tryStack is {buf, len, cap}.  tryStack.buf lists the TryFrames      *)
(* stored from buf[0] on; a slot nothing has stored to holds Uninit, and   *)
(* reading it (or a slot past the stored ones) yields any frame.           *)
(***************************************************************************)
CodePushTry == 60
CodePopTry  == 61
CodeThrow   == 62

MaxMain == 4        \* instructions of the main code of a try program
MaxFunc == 1        \* instructions of its function, before the Ret0

TryFrame(fp, catchPc, catchErrDst) ==
    [fp |-> fp, catchPc |-> catchPc, catchErrDst |-> catchErrDst]

Uninit == TryFrame(0 - 1, 0, 0)

\* getInstOffset(vm, to), vm.c lines 99-101
getInstOffset(to) == to - instPtr

\* What an uninitialized TryFrame may hold: among all frames, one whose handler
\* lies outside the code and one whose handler is the next instruction.
GarbageFrames ==
    {TryFrame(EntryBase + 4, 200, 5), TryFrame(EntryBase, getInstOffset(pc) + 2, 6)}

\* ((TryFrame*)vm->tryStack.buf)[i]
ReadTryFrame(i) ==
    IF i + 1 <= Len(tryStack.buf) /\ tryStack.buf[i + 1] # Uninit
    THEN {tryStack.buf[i + 1]}
    ELSE GarbageFrames

\* ((TryFrame*)vm->tryStack.buf)[i] = frame
WriteTryFrame(i, frame) ==
    [k \in 1 .. (IF Len(tryStack.buf) > i THEN Len(tryStack.buf) ELSE i + 1) |->
        IF k = i + 1 THEN frame
        ELSE IF k <= Len(tryStack.buf) THEN tryStack.buf[k] ELSE Uninit]

\* zGrowTryStackTotalCapacity(&vm->tryStack, vm->alloc, newCap): the code it
\* returns and, on success, the capacities it may leave.
zGrowTryStackTotalCapacityCodes == {"RES_CODE_SUCCESS", "RES_CODE_OOM"}
GrownCaps(newCap) == {newCap, newCap + 1}

\* An error Value: the ERROR tag over a 32-bit payload
ErrorValue(id) == WordOr(ERROR_MASK, WordOfNat(id))

\* History of the try opcodes: the try-stack and the frames pushed and not
\* popped, as they were before the instruction.
BeforeTry(op, ins, path) ==
    [try |-> tryStack, handlers |-> handlers] @@ Before(op, ins, path)

\* The frames pushed and not popped, after the most recent one is removed.
DropHandler == IF handlers = <<>> THEN <<>> ELSE SubSeq(handlers, 1, Len(handlers) - 1)

\* CASE(PushTry), vm.c lines 1495-1512.  With len > cap the store lands past
\* the end of the buffer: it corrupts memory silently or the process dies.
PushTry(ins) ==
    /\ Running
    /\ At(ins, 0) = CodePushTry
    /\ LET errDst        == At(ins, 1)
           catchPcOffset == READ_U16(ins, 2)
           frame         == TryFrame(stack, getInstOffset(pc) + catchPcOffset, errDst)
           len           == tryStack.len
           stored(cap)   == /\ tryStack' = [buf |-> WriteTryFrame(len, frame),
                                            len |-> len + 1, cap |-> cap]
                            /\ handlers' = Append(handlers, frame)
                            /\ NEXT(pc + 4, stack)
                            /\ last' = BeforeTry("PushTry", ins, "pushed")
       IN  IF len = tryStack.cap
           THEN \E code \in zGrowTryStackTotalCapacityCodes :
                   IF code # "RES_CODE_SUCCESS"
                   THEN /\ RETURN(code, pc, stack)
                        /\ last' = BeforeTry("PushTry", ins, "nomem")
                        /\ UNCHANGED <<tryStack, handlers>>
                   ELSE \E cap \in GrownCaps(len + 1) : stored(cap)
           ELSE IF len < tryStack.cap
           THEN stored(tryStack.cap)
           ELSE \/ stored(tryStack.cap)
                \/ /\ zFatal
                   /\ last' = BeforeTry("PushTry", ins, "overrun")
                   /\ UNCHANGED <<tryStack, handlers>>
    /\ inst' = <<>>
    /\ UNCHANGED <<regs, panicVars, heapVars, frames, valueVars, progVars, coVars, seen>>

\* Variant: the frame is popped.
PopTry_decrements(ins) ==
    /\ Running
    /\ At(ins, 0) = CodePopTry
    /\ tryStack' = [tryStack EXCEPT !.len = @ - 1]
    /\ handlers' = DropHandler
    /\ NEXT(pc + READ_U16(ins, 1), stack)
    /\ last' = BeforeTry("PopTry", ins, "popped")
    /\ inst' = <<>>
    /\ UNCHANGED <<regs, panicVars, heapVars, frames, valueVars, progVars, coVars, seen>>

\* CASE(PopTry), vm.c lines 1513-1517: vm->tryStack.len += 1
PopTry(ins) ==
    /\ Running
    /\ At(ins, 0) = CodePopTry
    /\ tryStack' = [tryStack EXCEPT !.len = @ + 1]
    /\ handlers' = DropHandler
    /\ NEXT(pc + READ_U16(ins, 1), stack)
    /\ last' = BeforeTry("PopTry", ins, "popped")
    /\ inst' = <<>>
    /\ UNCHANGED <<regs, panicVars, heapVars, frames, valueVars, progVars, coVars, seen>>

\* zThrow(vm, stack, pc, err): the top try-frame is popped, the stack base
\* returns to the frame's fp, err is stored in its catchErrDst and the loop
\* resumes at its catchPc; the calls made above fp are abandoned.  With an
\* empty try-stack the throw becomes a panic.
zThrow(ins, err) ==
    IF tryStack.len <= 0
    THEN /\ panicMsg' = "uncaught error"
         /\ panicType' = "PANIC_MSG"
         /\ RETURN("RES_CODE_PANIC", pc, stack)
         /\ last' = BeforeTry("Throw", ins, "uncaught")
         /\ UNCHANGED <<regs, frames, tryStack, handlers>>
    ELSE \E frame \in ReadTryFrame(tryStack.len - 1) :
            /\ tryStack' = [tryStack EXCEPT !.len = @ - 1]
            /\ handlers' = DropHandler
            /\ regs' = [regs EXCEPT ![frame.fp + frame.catchErrDst] = err]
            /\ frames' = SelectSeq(frames, LAMBDA f : f.stack < frame.fp)
            /\ NEXT(instPtr + frame.catchPc, frame.fp)
            /\ last' = BeforeTry("Throw", ins, "caught")
            /\ UNCHANGED panicVars

\* Variant: a try-frame is popped before the operand is looked at.
Throw_popsFirst(ins) ==
    /\ Running
    /\ At(ins, 0) = CodeThrow
    /\ LET err == regs[stack + At(ins, 1)]
       IN  IF VALUE_IS_ERROR(err)
           THEN zThrow(ins, err)
           ELSE /\ panicStaticMsg("Not an error.")
                /\ RETURN("RES_CODE_PANIC", pc, stack)
                /\ last' = BeforeTry("Throw", ins, "notError")
                /\ tryStack' = [tryStack EXCEPT !.len = IF @ > 0 THEN @ - 1 ELSE @]
                /\ UNCHANGED <<regs, frames, handlers>>
    /\ inst' = <<>>
    /\ UNCHANGED <<heapVars, valueVars, progVars, coVars, seen>>

\* CASE(Throw), vm.c lines 1518-1532
Throw(ins) ==
    /\ Running
    /\ At(ins, 0) = CodeThrow
    /\ LET err == regs[stack + At(ins, 1)]
       IN  IF VALUE_IS_ERROR(err)
           THEN zThrow(ins, err)
           ELSE /\ panicStaticMsg("Not an error.")
                /\ RETURN("RES_CODE_PANIC", pc, stack)
                /\ last' = BeforeTry("Throw", ins, "notError")
                /\ UNCHANGED <<regs, frames, tryStack, handlers>>
    /\ inst' = <<>>
    /\ UNCHANGED <<heapVars, valueVars, progVars, coVars, seen>>

(***************************************************************************)
(* SpecTry: every program made of a function of up to MaxFunc try opcodes  *)
(* and a Ret0 at CalleePc, followed by a main code of up to MaxMain try    *)
(* opcodes and calls of the function.  The loop is entered at the main     *)
(* code, in the entry frame of Spec.  Throw reads register 4 of the        *)
(* current frame; a handler receives the error in register 5 of its own.   *)
(***************************************************************************)
PushTryInst == <<CodePushTry, 5>> \o U16Bytes(100)
PopTryInst  == <<CodePopTry>> \o U16Bytes(3)
ThrowInst   == <<CodeThrow, 4>>
CallInst    == <<CodeCallFuncIC, 4, 0, 0, 4, 0>> \o U16Bytes(CalleePc) \o <<0, 0, 0, 0>>

TryInsts == {PushTryInst, PopTryInst, ThrowInst}

\* The sequences of up to n elements of S
SeqsUpTo(S, n) == UNION { [1 .. k -> S] : k \in 0 .. n }

RECURSIVE Flatten(_)
Flatten(ss) == IF ss = <<>> THEN <<>> ELSE Head(ss) \o Flatten(Tail(ss))

\* The function's code, placed at CalleePc
FuncCode(body) == [i \in 1 .. (CalleePc - instPtr) |-> 255] \o Flatten(body) \o <<CodeRet0>>

ThrownValues == {ErrorValue(1), VALUE_NONE}

InitTry ==
    /\ LoopIdle
    /\ ValueIdle
    /\ fields = [o \in Objs |-> <<>>]
    /\ FiberIdle
    /\ stack = EntryBase
    /\ frames = <<EntryFrame(0)>>
    /\ rc = [o \in Objs |-> 1]
    /\ \E body \in SeqsUpTo(TryInsts, MaxFunc),
          main \in SeqsUpTo(TryInsts \cup {CallInst}, MaxMain) :
          /\ instBuf = FuncCode(body) \o Flatten(main)
          /\ pc = instPtr + Len(FuncCode(body))
    /\ \E thrown \in ThrownValues :
          regs = [i \in 0 .. StackLen - 1 |->
                     CASE i = EntryBase + 1 -> VALUE_RETINFO(0, 1, 0)
                       [] i = EntryBase + 2 -> PcWord(EntryRetPc)
                       [] i = EntryBase + 3 -> StackWord(EntryRetFp)
                       [] i \in {EntryBase + 4, EntryBase + 8} -> thrown
                       [] OTHER -> VALUE_NONE]

NextTry ==
    \/ \E ins \in Loaded(4) : PushTry(ins)
    \/ \E ins \in Loaded(3) : PopTry(ins)
    \/ \E ins \in Loaded(2) : Throw(ins)
    \/ \E ins \in Loaded(CALL_SYM_INST_LEN) : CallFuncIC(ins)
    \/ \E ins \in Loaded(1) : Ret0(ins)

SpecTry == InitTry /\ [][NextTry]_vars

(***************************************************************************)
(* Properties of the try opcodes (checked under SpecTry).                  *)
(***************************************************************************)
\* The try-stack as it is now: its length and the frames below it.
TryFramesOf(t) == [i \in 1 .. t.len |-> IF i <= Len(t.buf) THEN t.buf[i] ELSE Uninit]

\* C21 as stated: PopTry pops one try-frame: it reduces the length of the
\* try-stack by one, so that a PopTry that follows the matching PushTry
\* leaves the length and the frames of the try-stack as they were before the
\* PushTry.
C21_AsStated ==
    last.op = "PopTry" => tryStack.len = last.try.len - 1

\* C21, what the code does: PopTry adds one to the length of the try-stack
\* and leaves its buffer alone.
C21_PopTryIncrements ==
    last.op = "PopTry" =>
        /\ tryStack.len = last.try.len + 1
        /\ tryStack.buf = last.try.buf
        /\ pc = last.pc + READ_U16(last.ins, 1)

C21_PoppedAfterPush ==
    /\ last.op = "PopTry"
    /\ last.handlers # <<>>
    /\ last.try.len = 1
    /\ tryStack.len = 2

\* C22: Throw on a register that holds no ERROR value returns PANIC with the
\* static panic "Not an error." and leaves the try-stack, pc, the stack base
\* and every register unchanged.
C22_ThrowNonError ==
    (last.op = "Throw" /\ ~VALUE_IS_ERROR(last.regs[last.stack + At(last.ins, 1)])) =>
        /\ res = "RES_CODE_PANIC"
        /\ panicType = "PANIC_STATIC_MSG"
        /\ panicMsg = "Not an error."
        /\ tryStack = last.try
        /\ pc = last.pc
        /\ stack = last.stack
        /\ regs = last.regs
        /\ curPc = last.pc
        /\ curStack = last.stack

C22_Witness ==
    /\ last.op = "Throw"
    /\ last.path = "notError"
    /\ last.try.len > 0
    /\ last.stack > EntryBase
    /\ res = "RES_CODE_PANIC"

\* The Throw dispatched last had an ERROR value in its operand.
ThrewError ==
    last.op = "Throw" /\ VALUE_IS_ERROR(last.regs[last.stack + At(last.ins, 1)])

\* The loop is where Throw leaves it after handing the error to frame.
LandedAt(frame) ==
    /\ res = "RUNNING"
    /\ pc = instPtr + frame.catchPc
    /\ stack = frame.fp
    /\ regs[frame.fp + frame.catchErrDst] = last.regs[last.stack + At(last.ins, 1)]

\* C23 as stated: after any sequence of PushTry, PopTry, calls and returns,
\* Throw of an error value transfers control to the catch pc of the try-frame
\* pushed most recently and not popped, with the stack base at that frame's
\* fp and its catchErrDst register holding the error; a frame that PopTry has
\* popped is never used as a handler (with no frame left the throw is not
\* caught).
C23_AsStated ==
    ThrewError =>
        IF last.handlers # <<>>
        THEN LandedAt(last.handlers[Len(last.handlers)])
        ELSE res = "RES_CODE_PANIC"

\* C23 while no PopTry has run (the try-stack holds exactly the frames pushed
\* and not consumed): Throw lands in the most recent of them.
C23_UntouchedByPopTry ==
    (ThrewError /\ TryFramesOf(last.try) = last.handlers) =>
        IF last.handlers # <<>>
        THEN LandedAt(last.handlers[Len(last.handlers)])
        ELSE res = "RES_CODE_PANIC"

\* A frame that PopTry had popped has caught an error.
C23_PoppedFrameUsed ==
    /\ ThrewError
    /\ last.path = "caught"
    /\ last.handlers = <<>>
    /\ last.try.len = 1
    /\ Len(last.try.buf) >= 1
    /\ last.try.buf[1] # Uninit
    /\ LandedAt(last.try.buf[1])
    /\ stack = EntryBase

C23_CaughtInCaller ==
    /\ ThrewError
    /\ last.path = "caught"
    /\ TryFramesOf(last.try) = last.handlers
    /\ last.stack > EntryBase
    /\ stack = EntryBase

(***************************************************************************)
(* Fibers: Coinit, Coyield, Coresume and Coreturn, vm.c lines 1533-1584,   *)
(* and the static variables through which a fiber handle passes from one   *)
(* fiber to another, vm.c lines 1902-1917.                                 *)
(*                                                                         *)
(* Fiber 0 is vm->mainFiber, fiber o > 0 lives in heap object o.  Every    *)
(* fiber owns a value stack: regs is the stack of the current fiber, and   *)
(* fibers[f] keeps, for a fiber that is not current, its stack, its stack  *)
(* base and its saved pc offset.                                           *)
(***************************************************************************)
\* NULL_U32 is UINT32_MAX; the model keeps the int32 reading of a uint32_t.
NULL_U32 == 0 - 1

\* vm->instPtr + offset for a uint32_t offset: UINT32_MAX bytes past instPtr is
\* an address far outside the buffer.
PcAt(offset) == IF offset = NULL_U32 THEN INT32_MAX ELSE instPtr + offset

CodeCoinit       == 63
CodeCoyield      == 64
CodeCoresume     == 65
CodeCoreturn     == 66
CodeStaticVar    == 94
CodeSetStaticVar == 95

NoFiber == [isFiber |-> FALSE, pcOffset |-> 0, sp |-> 0, regs |-> <<>>,
            parent |-> 0, parentDst |-> 0]

\* pcOffset(vm, pc), vm.c lines 236-238
pcOffset(p) == p - instPtr

\* History of the fiber opcodes: the current fiber and the fibers before the
\* instruction.
BeforeCo(op, ins, path) ==
    [cur |-> curFiber, fibers |-> fibers] @@ Before(op, ins, path)

\* (Fiber*)obj for the Value of a fiber handle
FiberOf(val) == VALUE_AS_HEAPOBJECT(val)

\* The heap objects no allocation has used.
FreeObjs == { o \in Objs : rc[o] = 0 /\ freeCount[o] = 0 /\ ~fibers[o].isFiber }

\* zAllocFiber(vm, pc, args, numArgs, initialStackSize): the codes it returns
zAllocFiberCodes == {"RES_CODE_SUCCESS", "RES_CODE_OOM"}

\* zAllocFiber: the new fiber, with the arguments copied to its stack after the
\* frame header and the return slot, and its saved pc at pcOff.
NewFiber(pcOff, args, numArgs) ==
    [isFiber |-> TRUE, pcOffset |-> pcOff, sp |-> 0,
     regs |-> [i \in 0 .. StackLen - 1 |->
                  IF i >= 5 /\ i < 5 + numArgs THEN regs[args + (i - 5)] ELSE VALUE_NONE],
     parent |-> 0, parentDst |-> NULL_U8]

\* Variant: the new fiber is made current.
Coinit_switches(ins) ==
    /\ Running
    /\ At(ins, 0) = CodeCoinit
    /\ FreeObjs # {}
    /\ LET o == CHOOSE x \in FreeObjs : \A y \in FreeObjs : x <= y
       IN  /\ fibers' = [fibers EXCEPT ![o] = NewFiber(pcOffset(pc + 6), stack, 0)]
           /\ rc' = [rc EXCEPT ![o] = 1]
           /\ regs' = [regs EXCEPT ![stack + At(ins, 5)] = VALUE_PTR(o)]
           /\ curFiber' = o
           /\ NEXT(pc + At(ins, 3), stack)
           /\ last' = BeforeCo("Coinit", ins, "allocated")
    /\ inst' = <<>>
    /\ UNCHANGED <<panicVars, freeCount, frames, valueVars, progVars, tryVars, varSyms, seen>>

\* CASE(Coinit), vm.c lines 1533-1547
Coinit(ins) ==
    /\ Running
    /\ At(ins, 0) = CodeCoinit
    /\ LET startArgsLocal == At(ins, 1)
           numArgs        == At(ins, 2)
           jump           == At(ins, 3)
           dst            == At(ins, 5)
       IN  \E code \in zAllocFiberCodes :
              IF code # "RES_CODE_SUCCESS" \/ FreeObjs = {}
              THEN /\ code # "RES_CODE_SUCCESS"
                   /\ RETURN(code, pc, stack)
                   /\ last' = BeforeCo("Coinit", ins, "nomem")
                   /\ UNCHANGED <<regs, rc, fibers>>
              ELSE LET o == CHOOSE x \in FreeObjs : \A y \in FreeObjs : x <= y
                   IN  /\ fibers' = [fibers EXCEPT ![o] =
                              NewFiber(pcOffset(pc + 6), stack + startArgsLocal, numArgs)]
                       /\ rc' = [rc EXCEPT ![o] = 1]
                       /\ regs' = [regs EXCEPT ![stack + dst] = VALUE_PTR(o)]
                       /\ NEXT(pc + jump, stack)
                       /\ last' = BeforeCo("Coinit", ins, "allocated")
    /\ inst' = <<>>
    /\ UNCHANGED <<panicVars, freeCount, frames, valueVars, progVars, tryVars,
                   curFiber, varSyms, seen>>

\* zPopFiber(vm, curFiberEndPc, curStack, retValue): the current fiber's
\* continuation is saved, its parent becomes current and receives retValue in
\* the register its Coresume named.
zPopFiber(curFiberEndPc, curFp, retValue) ==
    LET parent == fibers[curFiber].parent
        dst    == fibers[curFiber].parentDst
    IN  /\ fibers' = [fibers EXCEPT ![curFiber].pcOffset = curFiberEndPc,
                                    ![curFiber].sp = curFp,
                                    ![curFiber].regs = regs]
        /\ curFiber' = parent
        /\ regs' = [fibers[parent].regs EXCEPT ![fibers[parent].sp + dst] = retValue]
        /\ NEXT(PcAt(fibers[parent].pcOffset), fibers[parent].sp)

\* The pc at which a fiber resumes: its saved pc, or the instruction after the
\* Coyield that saved it.
ResumePc(f) ==
    LET at == fibers[f].pcOffset
    IN  IF at >= 0 /\ at < Len(Buffer) /\ Buffer[at + 1] = CodeCoyield
        THEN PcAt(at + 3) ELSE PcAt(at)

\* zPushFiber(vm, curFiberEndPc, curStack, fiber, parentDstLocal): the current
\* fiber's continuation is saved, it becomes the parent of fiber, and fiber
\* becomes current.
zPushFiber(curFiberEndPc, curFp, fiber, parentDstLocal) ==
    /\ fibers' = [fibers EXCEPT ![curFiber].pcOffset = curFiberEndPc,
                                ![curFiber].sp = curFp,
                                ![curFiber].regs = regs,
                                ![fiber].parent = curFiber,
                                ![fiber].parentDst = parentDstLocal]
    /\ curFiber' = fiber
    /\ regs' = fibers[fiber].regs
    /\ NEXT(ResumePc(fiber), fibers[fiber].sp)

\* Variant: the main fiber yields like any other.
Coyield_always(ins) ==
    /\ Running
    /\ At(ins, 0) = CodeCoyield
    /\ zPopFiber(pcOffset(pc), stack, VALUE_NONE)
    /\ last' = BeforeCo("Coyield", ins, "switch")
    /\ inst' = <<>>
    /\ UNCHANGED <<panicVars, heapVars, frames, valueVars, progVars, tryVars, varSyms, seen>>

\* CASE(Coyield), vm.c lines 1548-1556
Coyield(ins) ==
    /\ Running
    /\ At(ins, 0) = CodeCoyield
    /\ IF curFiber # 0
       THEN /\ zPopFiber(pcOffset(pc), stack, VALUE_NONE)
            /\ last' = BeforeCo("Coyield", ins, "switch")
       ELSE /\ NEXT(pc + 3, stack)
            /\ last' = BeforeCo("Coyield", ins, "nop")
            /\ UNCHANGED <<regs, curFiber, fibers>>
    /\ inst' = <<>>
    /\ UNCHANGED <<panicVars, heapVars, frames, valueVars, progVars, tryVars, varSyms, seen>>

\* releaseObject(vm, obj), vm.c lines 150-172
releaseObject(h, obj) ==
    LET h1 == [h EXCEPT !.rc[obj] = @ - 1]
    IN  IF h1.rc[obj] = 0 THEN zFreeObject(h1, obj) ELSE h1

\* Variant: a finished fiber is resumed like any other.
Coresume_resumesFinished(ins) ==
    /\ Running
    /\ At(ins, 0) = CodeCoresume
    /\ LET fiber == regs[stack + At(ins, 1)]
       IN  /\ Live(Heap, fiber)
           /\ IF VALUE_IS_POINTER(fiber) /\ fibers[FiberOf(fiber)].isFiber
                 /\ FiberOf(fiber) # curFiber
              THEN /\ zPushFiber(pcOffset(pc + 3), stack, FiberOf(fiber), At(ins, 2))
                   /\ last' = BeforeCo("Coresume", ins, "switch")
                   /\ UNCHANGED heapVars
              ELSE /\ SetHeap(IF VALUE_IS_POINTER(fiber)
                              THEN releaseObject(Heap, VALUE_AS_HEAPOBJECT(fiber))
                              ELSE Heap)
                   /\ NEXT(pc + 3, stack)
                   /\ last' = BeforeCo("Coresume", ins, "nop")
                   /\ UNCHANGED <<regs, curFiber, fibers>>
    /\ inst' = <<>>
    /\ UNCHANGED <<panicVars, frames, valueVars, progVars, tryVars, varSyms, seen>>

\* CASE(Coresume), vm.c lines 1557-1575.  The operand is not a pointer to a
\* freed object: the use of one is undefined.
Coresume(ins) ==
    /\ Running
    /\ At(ins, 0) = CodeCoresume
    /\ LET fiber == regs[stack + At(ins, 1)]
       IN  /\ Live(Heap, fiber)
           /\ IF VALUE_IS_POINTER(fiber) /\ fibers[FiberOf(fiber)].isFiber
                 /\ FiberOf(fiber) # curFiber
                 /\ fibers[FiberOf(fiber)].pcOffset # NULL_U32
              THEN /\ zPushFiber(pcOffset(pc + 3), stack, FiberOf(fiber), At(ins, 2))
                   /\ last' = BeforeCo("Coresume", ins, "switch")
                   /\ UNCHANGED heapVars
              ELSE /\ SetHeap(IF VALUE_IS_POINTER(fiber)
                              THEN releaseObject(Heap, VALUE_AS_HEAPOBJECT(fiber))
                              ELSE Heap)
                   /\ NEXT(pc + 3, stack)
                   /\ last' = BeforeCo("Coresume", ins, "nop")
                   /\ UNCHANGED <<regs, curFiber, fibers>>
    /\ inst' = <<>>
    /\ UNCHANGED <<panicVars, frames, valueVars, progVars, tryVars, varSyms, seen>>

\* Variant: the fiber hands over slot 0 of its frame.
Coreturn_handsSlot0(ins) ==
    /\ Running
    /\ At(ins, 0) = CodeCoreturn
    /\ IF curFiber # 0
       THEN /\ zPopFiber(NULL_U32, stack, regs[stack])
            /\ last' = BeforeCo("Coreturn", ins, "switch")
       ELSE /\ NEXT(pc + 1, stack)
            /\ last' = BeforeCo("Coreturn", ins, "main")
            /\ UNCHANGED <<regs, curFiber, fibers>>
    /\ inst' = <<>>
    /\ UNCHANGED <<panicVars, heapVars, frames, valueVars, progVars, tryVars, varSyms, seen>>

\* CASE(Coreturn), vm.c lines 1576-1584
Coreturn(ins) ==
    /\ Running
    /\ At(ins, 0) = CodeCoreturn
    /\ IF curFiber # 0
       THEN /\ zPopFiber(NULL_U32, stack, regs[stack + 1])
            /\ last' = BeforeCo("Coreturn", ins, "switch")
       ELSE /\ NEXT(pc + 1, stack)
            /\ last' = BeforeCo("Coreturn", ins, "main")
            /\ UNCHANGED <<regs, curFiber, fibers>>
    /\ inst' = <<>>
    /\ UNCHANGED <<panicVars, heapVars, frames, valueVars, progVars, tryVars, varSyms, seen>>

\* CASE(StaticVar), vm.c lines 1902-1909
StaticVar(ins) ==
    /\ Running
    /\ At(ins, 0) = CodeStaticVar
    /\ LET symId == READ_U16(ins, 1)
           sym   == varSyms[symId + 1]
       IN  /\ Live(Heap, sym)
           /\ SetHeap(retain(Heap, sym))
           /\ regs' = [regs EXCEPT ![stack + At(ins, 3)] = sym]
    /\ NEXT(pc + 4, stack)
    /\ last' = BeforeCo("StaticVar", ins, "load")
    /\ inst' = <<>>
    /\ UNCHANGED <<panicVars, frames, valueVars, progVars, tryVars, coVars, seen>>

\* CASE(SetStaticVar), vm.c lines 1910-1917
SetStaticVar(ins) ==
    /\ Running
    /\ At(ins, 0) = CodeSetStaticVar
    /\ LET symId == READ_U16(ins, 1)
           prev  == varSyms[symId + 1]
       IN  /\ Live(Heap, prev)
           /\ varSyms' = [varSyms EXCEPT ![symId + 1] = regs[stack + At(ins, 3)]]
           /\ SetHeap(release(Heap, prev))
    /\ NEXT(pc + 4, stack)
    /\ last' = BeforeCo("SetStaticVar", ins, "store")
    /\ inst' = <<>>
    /\ UNCHANGED <<regs, panicVars, frames, valueVars, progVars, tryVars, curFiber,
                   fibers, seen>>

(***************************************************************************)
(* SpecFiber: the main fiber creates a fiber with Coinit and then runs up  *)
(* to MaxMain instructions that retain its handle (register 0), resume it  *)
(* (result in register 2), yield or return.  The fiber's body is up to     *)
(* MaxFunc + 1 instructions that yield or load static variable 0 into the  *)
(* register Coreturn hands over, then Coreturn.  Three more programs pass  *)
(* a handle through the static variable: a fiber that resumes itself, two  *)
(* fibers that resume each other, and a Coresume of values that are no     *)
(* fiber.                                                                  *)
(***************************************************************************)
CoinitInst(jump)   == <<CodeCoinit, 3, 1, jump, 0, 0>>
CoyieldInst        == <<CodeCoyield, 0, 0>>
CoresumeInst(r)    == <<CodeCoresume, r, 2>>
CoreturnInst       == <<CodeCoreturn>>
RetainInst         == <<CodeRetain, 0>>
StaticVarInst(dst) == <<CodeStaticVar, 0, 0, dst>>
SetStaticVarInst   == <<CodeSetStaticVar, 0, 0, 0>>

\* Coinit, the code of the new fiber, and the code the creator continues with
WithFiber(body, rest) == CoinitInst(6 + Len(body)) \o body \o rest

SelfResume ==
    WithFiber(StaticVarInst(0) \o CoresumeInst(0) \o CoreturnInst,
              SetStaticVarInst \o CoresumeInst(0))

MutualResume ==
    WithFiber(WithFiber(StaticVarInst(0) \o CoresumeInst(0) \o CoyieldInst \o CoreturnInst,
                        CoresumeInst(0) \o CoreturnInst),
              SetStaticVarInst \o CoresumeInst(0))

NoFiberResume == CoresumeInst(2) \o CoresumeInst(3) \o CoyieldInst

FiberPrograms ==
    { WithFiber(Flatten(body) \o CoreturnInst, Flatten(main)) :
        body \in SeqsUpTo({CoyieldInst, StaticVarInst(1)}, MaxFunc + 1),
        main \in SeqsUpTo({RetainInst, CoresumeInst(0), CoyieldInst, CoreturnInst}, MaxMain) }
    \cup {SelfResume, MutualResume, NoFiberResume}

InitFiber ==
    /\ LoopIdle
    /\ ValueIdle
    /\ fields = [o \in Objs |-> <<>>]
    /\ tryStack = [buf |-> <<>>, len |-> 0, cap |-> 0]
    /\ handlers = <<>>
    /\ seen = <<>>
    /\ curFiber = 0
    /\ fibers = [f \in 0 .. NumObjs |-> NoFiber]
    /\ varSyms = <<VALUE_TRUE>>
    /\ pc = instPtr
    /\ stack = 0
    /\ frames = <<>>
    /\ rc = [o \in Objs |-> 0]
    /\ regs = [i \in 0 .. StackLen - 1 |->
                  IF i = 3 THEN VALUE_NUMBER(Num(1)) ELSE VALUE_FALSE]
    /\ instBuf \in FiberPrograms

NextFiber ==
    \/ \E ins \in Loaded(6) : Coinit(ins)
    \/ \E ins \in Loaded(3) : Coyield(ins)
    \/ \E ins \in Loaded(3) : Coresume(ins)
    \/ \E ins \in Loaded(1) : Coreturn(ins)
    \/ \E ins \in Loaded(2) : Retain(ins)
    \/ \E ins \in Loaded(4) : StaticVar(ins)
    \/ \E ins \in Loaded(4) : SetStaticVar(ins)

SpecFiber == InitFiber /\ [][NextFiber]_vars

(***************************************************************************)
(* Properties of the fibers (checked under SpecFiber).                     *)
(***************************************************************************)
SwitchOps == {"Coyield", "Coresume", "Coreturn", "Throw"}

\* C24: exactly one fiber is current in every state (the main fiber or a fiber
\* object), and the current fiber changes only in a step of Coyield, Coresume,
\* Coreturn or Throw; every other opcode, Coinit included, leaves
\* vm->curFiber unchanged.
C24_CurrentFiber ==
    /\ [](curFiber = 0 \/ (curFiber \in Objs /\ fibers[curFiber].isFiber))
    /\ [][curFiber' # curFiber => last'.op \in SwitchOps]_vars

C24_Witness ==
    /\ last.op = "Coinit"
    /\ last.path = "allocated"
    /\ last.cur # 0
    /\ curFiber = last.cur

\* C25: Coyield on the main fiber is a nop: pc advances by 3 and the current
\* fiber, the stack base and the registers stay.  On any other fiber it saves
\* the fiber's continuation (pc offset, stack base, stack) and switches to the
\* fiber's parent, which finds NONE in the register its Coresume named.
C25_Coyield ==
    last.op = "Coyield" =>
        IF last.cur = 0
        THEN /\ pc = last.pc + 3
             /\ curFiber = 0
             /\ stack = last.stack
             /\ regs = last.regs
             /\ fibers = last.fibers
        ELSE LET f      == last.cur
                 parent == last.fibers[f].parent
             IN  /\ curFiber = parent
                 /\ fibers[f].pcOffset = pcOffset(last.pc)
                 /\ fibers[f].sp = last.stack
                 /\ fibers[f].regs = last.regs
                 /\ stack = last.fibers[parent].sp
                 /\ pc = PcAt(last.fibers[parent].pcOffset)
                 /\ regs[stack + last.fibers[f].parentDst] = VALUE_NONE

C25_Witness ==
    /\ last.op = "Coyield"
    /\ last.cur # 0
    /\ curFiber = 0
    /\ last.fibers[0].regs[2] # VALUE_NONE
    /\ regs[2] = VALUE_NONE

\* The operand of the Coresume dispatched last
ResumeOperand == last.regs[last.stack + At(last.ins, 1)]

\* The operand points to a fiber object that was not current and not finished.
Resumable ==
    /\ VALUE_IS_POINTER(ResumeOperand)
    /\ last.fibers[FiberOf(ResumeOperand)].isFiber
    /\ FiberOf(ResumeOperand) # last.cur
    /\ last.fibers[FiberOf(ResumeOperand)].pcOffset # NULL_U32

\* The operand points to a finished fiber.
ResumedFinished ==
    /\ VALUE_IS_POINTER(ResumeOperand)
    /\ last.fibers[FiberOf(ResumeOperand)].isFiber
    /\ last.fibers[FiberOf(ResumeOperand)].pcOffset = NULL_U32

\* C26: Coresume switches fibers exactly when its operand points to a fiber
\* object that is not the current fiber and whose pcOffset is not U32_MAX.  On
\* a finished fiber it releases the handle once and continues at pc + 3 with
\* the current fiber unchanged and the fiber's pcOffset still U32_MAX.
C26_Coresume ==
    last.op = "Coresume" =>
        /\ (curFiber # last.cur) <=> Resumable
        /\ Resumable => curFiber = FiberOf(ResumeOperand)
        /\ ResumedFinished =>
              /\ pc = last.pc + 3
              /\ curFiber = last.cur
              /\ stack = last.stack
              /\ regs = last.regs
              /\ fibers = last.fibers
              /\ rc = [last.rc EXCEPT ![FiberOf(ResumeOperand)] = @ - 1]

C26_Witness ==
    /\ last.op = "Coresume"
    /\ ResumedFinished
    /\ rc[FiberOf(ResumeOperand)] = last.rc[FiberOf(ResumeOperand)] - 1
    /\ rc[FiberOf(ResumeOperand)] > 0
    /\ pc = last.pc + 3

FiberOps == {"Coinit", "Coyield", "Coresume", "Coreturn", "StaticVar", "SetStaticVar"}

\* The fiber in object o has finished.
Finished(fs, o) == fs[o].isFiber /\ fs[o].pcOffset = NULL_U32

\* C27 as stated: finished is terminal: once Coreturn has set a fiber's
\* pcOffset to U32_MAX, no later Coresume, Coyield, Coreturn or Coinit changes
\* that pcOffset or makes the fiber current again.
C27_AsStated ==
    \A o \in Objs :
        /\ Finished(fibers, o) => curFiber # o
        /\ (last.op \in FiberOps /\ Finished(last.fibers, o)) => Finished(fibers, o)

\* C27, the part that holds: the pcOffset of a finished fiber stays U32_MAX,
\* and no Coresume makes a finished fiber current.
C27_PcOffsetKept ==
    \A o \in Objs :
        /\ (last.op \in FiberOps /\ Finished(last.fibers, o)) => Finished(fibers, o)
        /\ (last.op = "Coresume" /\ Finished(last.fibers, o)) => curFiber # o

\* A finished fiber is current again: the fiber it had resumed, and which
\* resumed it in turn, has yielded to it.
C27_FinishedCurrent ==
    /\ last.op = "Coyield"
    /\ curFiber # 0
    /\ Finished(last.fibers, curFiber)
    /\ last.fibers[last.cur].parent = curFiber

\* C28: Coreturn on a fiber other than the main fiber sets the fiber's
\* pcOffset to U32_MAX, makes its parent current and hands the value in
\* slot 1 of the fiber's frame to the parent in the register its Coresume
\* named; on the main fiber it switches nothing and advances pc by 1.
C28_Coreturn ==
    last.op = "Coreturn" =>
        IF last.cur = 0
        THEN /\ pc = last.pc + 1
             /\ curFiber = 0
             /\ stack = last.stack
             /\ regs = last.regs
             /\ fibers = last.fibers
        ELSE LET f      == last.cur
                 parent == last.fibers[f].parent
             IN  /\ fibers[f].pcOffset = NULL_U32
                 /\ curFiber = parent
                 /\ stack = last.fibers[parent].sp
                 /\ pc = PcAt(last.fibers[parent].pcOffset)
                 /\ regs[stack + last.fibers[f].parentDst] = last.regs[last.stack + 1]

C28_Witness ==
    /\ last.op = "Coreturn"
    /\ last.cur # 0
    /\ curFiber = 0
    /\ last.regs[last.stack + 1] = VALUE_TRUE
    /\ regs[2] = VALUE_TRUE
    /\ Finished(fibers, last.cur)

(***************************************************************************)
(* The range loop: ForRange and ForRangeReverse close the loop that        *)
(* ForRangeInit opens.                                                     *)
(***************************************************************************)
\* Variant: the loop goes on while the next counter is at most the end.
ForRange_inclusive(ins) ==
    /\ Running
    /\ At(ins, 0) = CodeForRange
    /\ \A k \in 1 .. 3 : VALUE_IS_NUMBER(regs[stack + At(ins, k)])
    /\ LET counter == DAdd(VALUE_AS_NUMBER(regs[stack + At(ins, 1)]),
                           VALUE_AS_NUMBER(regs[stack + At(ins, 2)]))
       IN  IF ~DLess(VALUE_AS_NUMBER(regs[stack + At(ins, 3)]), counter)
           THEN /\ InBuffer(pc - READ_U16(ins, 5))
                /\ regs' = [[regs EXCEPT ![stack + At(ins, 1)] = VALUE_NUMBER(counter)]
                                  EXCEPT ![stack + At(ins, 4)] = VALUE_NUMBER(counter)]
                /\ seen' = Entered(stack + At(ins, 1), stack + At(ins, 4))
                /\ NEXT(pc - READ_U16(ins, 5), stack)
                /\ last' = Before("ForRange", ins, "loop")
           ELSE /\ InBuffer(pc + 7)
                /\ NEXT(pc + 7, stack)
                /\ last' = Before("ForRange", ins, "exit")
                /\ UNCHANGED <<regs, seen>>
    /\ inst' = <<>>
    /\ UNCHANGED <<panicVars, heapVars, frames, valueVars, tryVars, coVars, progVars>>

\* CASE(ForRange), vm.c lines 1866-1876, for number operands
ForRange(ins) ==
    /\ Running
    /\ At(ins, 0) = CodeForRange
    /\ \A k \in 1 .. 3 : VALUE_IS_NUMBER(regs[stack + At(ins, k)])
    /\ LET counter == DAdd(VALUE_AS_NUMBER(regs[stack + At(ins, 1)]),
                           VALUE_AS_NUMBER(regs[stack + At(ins, 2)]))
       IN  IF DLess(counter, VALUE_AS_NUMBER(regs[stack + At(ins, 3)]))
           THEN /\ InBuffer(pc - READ_U16(ins, 5))
                /\ regs' = [[regs EXCEPT ![stack + At(ins, 1)] = VALUE_NUMBER(counter)]
                                  EXCEPT ![stack + At(ins, 4)] = VALUE_NUMBER(counter)]
                /\ seen' = Entered(stack + At(ins, 1), stack + At(ins, 4))
                /\ NEXT(pc - READ_U16(ins, 5), stack)
                /\ last' = Before("ForRange", ins, "loop")
           ELSE /\ InBuffer(pc + 7)
                /\ NEXT(pc + 7, stack)
                /\ last' = Before("ForRange", ins, "exit")
                /\ UNCHANGED <<regs, seen>>
    /\ inst' = <<>>
    /\ UNCHANGED <<panicVars, heapVars, frames, valueVars, tryVars, coVars, progVars>>

\* CASE(ForRangeReverse), vm.c lines 1877-1887, for number operands
ForRangeReverse(ins) ==
    /\ Running
    /\ At(ins, 0) = CodeForRangeReverse
    /\ \A k \in 1 .. 3 : VALUE_IS_NUMBER(regs[stack + At(ins, k)])
    /\ LET counter == DSub(VALUE_AS_NUMBER(regs[stack + At(ins, 1)]),
                           VALUE_AS_NUMBER(regs[stack + At(ins, 2)]))
       IN  IF DLess(VALUE_AS_NUMBER(regs[stack + At(ins, 3)]), counter)
           THEN /\ InBuffer(pc - READ_U16(ins, 5))
                /\ regs' = [[regs EXCEPT ![stack + At(ins, 1)] = VALUE_NUMBER(counter)]
                                  EXCEPT ![stack + At(ins, 4)] = VALUE_NUMBER(counter)]
                /\ seen' = Entered(stack + At(ins, 1), stack + At(ins, 4))
                /\ NEXT(pc - READ_U16(ins, 5), stack)
                /\ last' = Before("ForRangeReverse", ins, "loop")
           ELSE /\ InBuffer(pc + 7)
                /\ NEXT(pc + 7, stack)
                /\ last' = Before("ForRangeReverse", ins, "exit")
                /\ UNCHANGED <<regs, seen>>
    /\ inst' = <<>>
    /\ UNCHANGED <<panicVars, heapVars, frames, valueVars, tryVars, coVars, progVars>>

(***************************************************************************)
(* SpecRange: one range loop.  ForRangeInit over registers 3 (start),      *)
(* 4 (end), 5 (step), 6 (counter) and 7 (user binding), a body of one Jump *)
(* to the next instruction, and the closing instruction, which the         *)
(* compiler emits as ForRange or as ForRangeReverse.                       *)
(***************************************************************************)
RangeLoop(closing) ==
    <<CodeForRangeInit, 3, 4, 5, 6, 7>> \o U16Bytes(11)
    \o <<CodeJump>> \o I16Bytes(3)
    \o <<closing, 6, 5, 4, 7>> \o U16Bytes(3)

RangeEnds == { Num(n) : n \in (0 - 1) .. (MaxSeen - 2) } \cup {NegZero}

RangeSteps == { Num(n) : n \in (0 - 2) .. 2 }

InitRange ==
    /\ LoopIdle
    /\ ValueIdle
    /\ fields = [o \in Objs |-> <<>>]
    /\ FiberIdle
    /\ pc = instPtr
    /\ stack = 0
    /\ frames = <<>>
    /\ rc = [o \in Objs |-> 1]
    /\ \E closing \in {CodeForRange, CodeForRangeReverse} : instBuf = RangeLoop(closing)
    /\ \E start \in RangeEnds, end \in RangeEnds, step \in RangeSteps :
          regs = [i \in 0 .. StackLen - 1 |->
                     CASE i = 3 -> VALUE_NUMBER(start)
                       [] i = 4 -> VALUE_NUMBER(end)
                       [] i = 5 -> VALUE_NUMBER(step)
                       [] OTHER -> VALUE_NONE]

NextRange ==
    \/ \E ins \in Loaded(8) : ForRangeInit(ins)
    \/ \E ins \in Loaded(3) : Jump(ins)
    \/ \E ins \in Loaded(7) : ForRange(ins)
    \/ \E ins \in Loaded(7) : ForRangeReverse(ins)

SpecRange == InitRange /\ [][NextRange]_vars

(***************************************************************************)
(* Properties of the range loop (checked under SpecRange).                 *)
(***************************************************************************)
\* The operands of the ForRangeInit dispatched last
InitStart == VALUE_AS_NUMBER(last.regs[last.stack + At(last.ins, 1)])
InitEnd   == VALUE_AS_NUMBER(last.regs[last.stack + At(last.ins, 2)])

\* C29: ForRangeInit with start == end skips the loop body: control continues
\* after the loop's ForRange / ForRangeReverse instruction, the body has not
\* been entered, the counter and the user-binding registers are not written
\* and the opcode byte of the loop instruction is not patched.
C29_EmptyRange ==
    (/\ last.op = "ForRangeInit"
     /\ ~DLess(InitStart, InitEnd)
     /\ ~DLess(InitEnd, InitStart)) =>
        /\ pc = last.pc + READ_U16(last.ins, 6) + 7
        /\ seen = <<>>
        /\ regs[last.stack + At(last.ins, 4)] = last.regs[last.stack + At(last.ins, 4)]
        /\ regs[last.stack + At(last.ins, 5)] = last.regs[last.stack + At(last.ins, 5)]
        /\ Buffer = last.buf
        /\ ~ENABLED NextRange

C29_Witness ==
    /\ last.op = "ForRangeInit"
    /\ last.regs[3] = VALUE_NUMBER(NegZero)
    /\ last.regs[4] = VALUE_NUMBER(Num(0))
    /\ pc = instPtr + Len(instBuf)
    /\ regs[6] = VALUE_NONE
    /\ regs[7] = VALUE_NONE

\* The range of the loop, once ForRangeInit has run
RangeStart == VALUE_AS_NUMBER(regs[3])
RangeEnd   == VALUE_AS_NUMBER(regs[4])
RangeStep  == VALUE_AS_NUMBER(regs[5])
Forward    == DLess(RangeStart, RangeEnd)

\* The counter after one more iteration
Advance(d) == IF Forward THEN DAdd(d, RangeStep) ELSE DSub(d, RangeStep)

\* The counter of the k-th entry of the body
RECURSIVE NthCounter(_)
NthCounter(k) == IF k = 1 THEN RangeStart ELSE Advance(NthCounter(k - 1))

\* d lies between start (inclusive) and end (exclusive).
InRange(d) ==
    IF Forward THEN ~DLess(d, RangeStart) /\ DLess(d, RangeEnd)
    ELSE ~DLess(RangeStart, d) /\ DLess(RangeEnd, d)

\* C30: in a range loop with start != end and step s > 0 the body is entered
\* with the counter and the user binding both equal to start, start + s,
\* start + 2s, ... in order (start - s, ... in a reverse loop), every such
\* value lies between start (inclusive) and end (exclusive), and the loop is
\* left at the first iteration whose next counter would reach or cross end.
C30_RangeLoop ==
    (seen # <<>> /\ RangeStep.mag > 0) =>
        /\ \A k \in 1 .. Len(seen) :
              /\ seen[k] = <<VALUE_NUMBER(NthCounter(k)), VALUE_NUMBER(NthCounter(k))>>
              /\ InRange(NthCounter(k))
        /\ Len(seen) < MaxSeen
        /\ regs[6] = seen[Len(seen)][1]
        /\ regs[7] = seen[Len(seen)][2]
        /\ last.op = "ForRange" => Forward
        /\ last.op = "ForRangeReverse" => ~Forward
        /\ (last.op \in {"ForRange", "ForRangeReverse"} /\ last.path = "loop") =>
              InRange(NthCounter(Len(seen))) /\ pc = instPtr + 8
        /\ (last.op \in {"ForRange", "ForRangeReverse"} /\ last.path = "exit") =>
              /\ ~InRange(Advance(NthCounter(Len(seen))))
              /\ pc = instPtr + Len(instBuf)
              /\ regs = last.regs

C30_Witness ==
    /\ last.op = "ForRange"
    /\ last.path = "exit"
    /\ RangeStart = Num(0 - 1)
    /\ RangeEnd = Num(2)
    /\ RangeStep = Num(2)
    /\ seen = << <<VALUE_NUMBER(Num(0 - 1)), VALUE_NUMBER(Num(0 - 1))>>,
                 <<VALUE_NUMBER(Num(1)), VALUE_NUMBER(Num(1))>> >>

\* A reverse loop that has run to its end
C30_ReverseWitness ==
    /\ last.op = "ForRangeReverse"
    /\ last.path = "exit"
    /\ Len(seen) = 3
    /\ RangeStep = Num(1)
    /\ seen[3][2] = VALUE_NUMBER(Num(0))

(***************************************************************************)
(* The heap constructors.  An allocator returns a HeapObjectResult         *)
(* {obj, code}; when code is not RES_CODE_SUCCESS nothing has set obj: it  *)
(* is NULL (0) or the address of any object.  A ValueResult of the model   *)
(* carries, next to val and code, the reference counts and the object      *)
(* bodies as the constructor leaves them, the allocator's code, and        *)
(* whether the constructor stored through NULL.                            *)
(***************************************************************************)
CodeBox        == 69
CodeStaticFunc == 93

\* zAllocPoolObject(vm): the results it may return
zAllocPoolObject ==
    { [code |-> "RES_CODE_OOM", obj |-> g] : g \in {0} \cup Objs }
    \cup (IF FreeObjs = {} THEN {}
          ELSE { [code |-> "RES_CODE_SUCCESS",
                  obj |-> CHOOSE x \in FreeObjs : \A y \in FreeObjs : x <= y] })

\* return (ValueResult){ .code = res.code }
AllocFailure(r) ==
    [code |-> r.code, val |-> NoWord, rc |-> rc, fields |-> fields,
     alloc |-> r.code, fault |-> FALSE]

\* res.obj->... = {.rc = 1, ...}; return (ValueResult){ .val = VALUE_PTR(res.obj),
\* .code = RES_CODE_SUCCESS }
AllocStored(r, body) ==
    IF r.obj = 0
    THEN [AllocFailure(r) EXCEPT !.fault = TRUE]
    ELSE [code |-> "RES_CODE_SUCCESS", val |-> VALUE_PTR(r.obj),
          rc |-> [rc EXCEPT ![r.obj] = 1], fields |-> [fields EXCEPT ![r.obj] = body],
          alloc |-> r.code, fault |-> FALSE]

\* allocBox(vm, val), vm.c lines 374-385
allocBox(val) ==
    { IF r.code # "RES_CODE_SUCCESS" THEN AllocFailure(r) ELSE AllocStored(r, <<val>>) :
          r \in zAllocPoolObject }

\* allocLambda(vm, funcPc, numParams, stackSize, rFuncSigId), vm.c lines 358-372
allocLambda ==
    { IF r.code # "RES_CODE_SUCCESS" THEN AllocFailure(r) ELSE AllocStored(r, <<>>) :
          r \in zAllocPoolObject }

\* Variant: res.code is tested as in the other constructors.
allocNativeFunc1_checked == allocLambda

\* allocNativeFunc1(vm, func, numParams, rFuncSigId), vm.c lines 401-412:
\* res.code is not tested.
allocNativeFunc1 == { AllocStored(r, <<>>) : r \in zAllocPoolObject }

\* vm->funcSyms.buf: the entryT of every function symbol; the closure of
\* the FUNC_SYM_CLOSURE symbol is the last heap object.
FuncSyms == <<"FUNC_SYM_NATIVEFUNC1", "FUNC_SYM_FUNC", "FUNC_SYM_CLOSURE", "FUNC_SYM_NONE">>

\* allocFuncFromSym(vm, funcId), vm.c lines 414-437, but for the default case
allocFuncFromSym(funcId) ==
    CASE FuncSyms[funcId + 1] = "FUNC_SYM_NATIVEFUNC1" -> allocNativeFunc1
      [] FuncSyms[funcId + 1] = "FUNC_SYM_FUNC" -> allocLambda
      [] FuncSyms[funcId + 1] = "FUNC_SYM_CLOSURE" ->
            { [code |-> "RES_CODE_SUCCESS", val |-> VALUE_PTR(NumObjs),
               rc |-> retain(Heap, VALUE_PTR(NumObjs)).rc, fields |-> fields,
               alloc |-> "RES_CODE_SUCCESS", fault |-> FALSE] }
      [] OTHER -> {}

\* History of the constructors: the record of Before and the code the
\* allocator returned.
BeforeAlloc(op, ins, path, code) == [alloc |-> code] @@ Before(op, ins, path)

\* CASE(Box), vm.c lines 1599-1608
Box(ins) ==
    /\ Running
    /\ At(ins, 0) = CodeBox
    /\ \E r \in allocBox(regs[stack + At(ins, 1)]) :
          IF r.code # "RES_CODE_SUCCESS"
          THEN /\ RETURN(r.code, pc, stack)
               /\ last' = BeforeAlloc("Box", ins, "nomem", r.alloc)
               /\ UNCHANGED <<regs, rc, fields>>
          ELSE /\ regs' = [regs EXCEPT ![stack + At(ins, 2)] = r.val]
               /\ rc' = r.rc
               /\ fields' = r.fields
               /\ NEXT(pc + 3, stack)
               /\ last' = BeforeAlloc("Box", ins, "allocated", r.alloc)
    /\ inst' = <<>>
    /\ UNCHANGED <<panicVars, freeCount, frames, valueVars, instBuf, fiberVars>>

\* CASE(StaticFunc), vm.c lines 1892-1901.  A store through a NULL res.obj
\* ends the process.
StaticFunc(ins) ==
    /\ Running
    /\ At(ins, 0) = CodeStaticFunc
    /\ LET funcId == READ_U16(ins, 1)
       IN  IF allocFuncFromSym(funcId) = {}
           THEN /\ zFatal
                /\ last' = BeforeAlloc("StaticFunc", ins, "fatal", "RES_CODE_SUCCESS")
                /\ UNCHANGED <<regs, rc, fields>>
           ELSE \E r \in allocFuncFromSym(funcId) :
                   IF r.fault
                   THEN /\ res' = "SIGSEGV"
                        /\ last' = BeforeAlloc("StaticFunc", ins, "fault", r.alloc)
                        /\ UNCHANGED <<pc, stack, curPc, curStack, regs, rc, fields>>
                   ELSE IF r.code # "RES_CODE_SUCCESS"
                   THEN /\ RETURN(r.code, pc, stack)
                        /\ last' = BeforeAlloc("StaticFunc", ins, "nomem", r.alloc)
                        /\ UNCHANGED <<regs, rc, fields>>
                   ELSE /\ regs' = [regs EXCEPT ![stack + At(ins, 3)] = r.val]
                        /\ rc' = r.rc
                        /\ fields' = r.fields
                        /\ NEXT(pc + 4, stack)
                        /\ last' = BeforeAlloc("StaticFunc", ins, "allocated", r.alloc)
    /\ inst' = <<>>
    /\ UNCHANGED <<panicVars, freeCount, frames, valueVars, instBuf, fiberVars>>

(***************************************************************************)
(* SpecAlloc: programs of Box, StaticFunc and Coinit over a heap with one  *)
(* object in use (the closure of a function symbol), so that allocations   *)
(* succeed, fail because the allocator says so, and fail because the heap  *)
(* is used up.                                                             *)
(***************************************************************************)
BoxInst == <<CodeBox, 3, 4>>

StaticFuncInst(funcId) == <<CodeStaticFunc>> \o U16Bytes(funcId) \o <<5>>

AllocInsts ==
    {BoxInst, CoinitInst(6)} \cup { StaticFuncInst(f) : f \in 0 .. Len(FuncSyms) - 1 }

InitAlloc ==
    /\ LoopIdle
    /\ ValueIdle
    /\ fields = [o \in Objs |-> <<>>]
    /\ tryStack = [buf |-> <<>>, len |-> 0, cap |-> 0]
    /\ handlers = <<>>
    /\ seen = <<>>
    /\ curFiber = 0
    /\ fibers = [f \in 0 .. NumObjs |-> NoFiber]
    /\ varSyms = <<>>
    /\ pc = instPtr
    /\ stack = 0
    /\ frames = <<>>
    /\ rc = [o \in Objs |-> IF o = NumObjs THEN 1 ELSE 0]
    /\ \E boxed \in {VALUE_TRUE, VALUE_PTR(NumObjs)} :
          regs = [i \in 0 .. StackLen - 1 |-> IF i = 3 THEN boxed ELSE VALUE_NONE]
    /\ \E prog \in SeqsUpTo(AllocInsts, MaxFunc + 1) : instBuf = Flatten(prog)

NextAlloc ==
    \/ \E ins \in Loaded(3) : Box(ins)
    \/ \E ins \in Loaded(4) : StaticFunc(ins)
    \/ \E ins \in Loaded(6) : Coinit(ins)

SpecAlloc == InitAlloc /\ [][NextAlloc]_vars

(***************************************************************************)
(* Properties of the heap constructors (checked under SpecAlloc).          *)
(***************************************************************************)
\* The allocator of the constructor dispatched last has failed.
AllocFailed ==
    \/ last.op \in {"Box", "StaticFunc"} /\ last.alloc # "RES_CODE_SUCCESS"
    \/ last.op = "Coinit" /\ last.path = "nomem"

\* C31 as stated: when allocation fails in a heap-constructor opcode,
\* execBytecode returns the allocator's failure code (OOM) and the destination
\* register, all other registers and all reference counts are unchanged.
C31_AsStated ==
    AllocFailed =>
        /\ res = "RES_CODE_OOM"
        /\ regs = last.regs
        /\ rc = last.rc

\* C31 for the constructors that test the allocator's code: Box, Coinit and
\* StaticFunc of a bytecode function.
C31_CheckedConstructors ==
    (AllocFailed /\ ~(last.op = "StaticFunc"
                      /\ FuncSyms[READ_U16(last.ins, 1) + 1] = "FUNC_SYM_NATIVEFUNC1")) =>
        /\ res = "RES_CODE_OOM"
        /\ regs = last.regs
        /\ rc = last.rc
        /\ pc = last.pc

\* StaticFunc of a native function goes on after the allocator has failed,
\* with a pointer nothing allocated in its destination.
C31_NativeFuncUnchecked ==
    /\ last.op = "StaticFunc"
    /\ last.alloc = "RES_CODE_OOM"
    /\ res = "RUNNING"
    /\ pc = last.pc + 4
    /\ regs[5] # last.regs[5]
    /\ VALUE_IS_POINTER(regs[5])

(***************************************************************************)
(* Domain violations of the field opcodes (checked under SpecIC).          *)
(***************************************************************************)
FieldOpNames == {"Field", "FieldIC", "FieldRetain", "FieldRetainIC",
                 "SetFieldRelease", "SetFieldReleaseIC"}

\* The symbol of the generic field opcode dispatched last
LastFieldSym ==
    IF last.op = "SetFieldRelease" THEN At(last.ins, 3) ELSE READ_U16(last.ins, 3)

\* The field opcode dispatched last found a receiver that is not an object,
\* or a symbol that is not a field of the receiver's type.
FieldViolation ==
    /\ last.op \in FieldOpNames
    /\ \/ ~VALUE_IS_POINTER(LastReceiver)
       \/ /\ last.op \in {"Field", "FieldRetain", "SetFieldRelease"}
          /\ getFieldOffset(VALUE_AS_HEAPOBJECT(LastReceiver), LastFieldSym) = NULL_U8

\* C32 as stated: every field opcode that detects a domain violation (the
\* receiver is not an object, or the field symbol is missing for the
\* receiver's type) sets a panic on the current fiber and the loop returns
\* PANIC.
C32_AsStated ==
    FieldViolation => (res = "RES_CODE_PANIC" /\ panicType # "PANIC_NONE")

\* C32 for the opcodes that do panic: Field, FieldIC and FieldRetain with a
\* receiver that is not an object.
C32_NotAnObject ==
    (last.op \in {"Field", "FieldIC", "FieldRetain"} /\ ~VALUE_IS_POINTER(LastReceiver)) =>
        /\ res = "RES_CODE_PANIC"
        /\ panicType = "PANIC_STATIC_MSG"
        /\ panicMsg = "Field not found in value."

\* A field opcode has left the loop with RES_CODE_UNKNOWN and no panic.
C32_UnknownWithoutPanic ==
    /\ FieldViolation
    /\ last.op = "FieldRetainIC"
    /\ res = "RES_CODE_UNKNOWN"
    /\ panicType = "PANIC_NONE"

(***************************************************************************)
(* SetCheckFieldRelease.                                                   *)
(***************************************************************************)
CodeSetCheckFieldRelease == 59

\* symMap->mruFieldTypeSymId once getFieldOffset has found symbol symId in
\* type typeId: the sema type the field is declared with.  Field 0 of type
\* HeadTypeId(1) is declared with the type of object 2, field 0 of type
\* HeadTypeId(2) as a number, field 1 of type HeadTypeId(1) as any.
mruFieldTypeSymId(typeId, symId) ==
    CASE symId = 0 /\ typeId = HeadTypeId(1) -> VmTypeSymId(HeadTypeId(2))
      [] symId = 0 /\ typeId = HeadTypeId(2) -> VmTypeSymId(TYPE_NUMBER)
      [] OTHER -> SEMA_TYPE_ANY

\* panicFmt(vm, format, ...), vm.c lines 458-474: the message is allocated,
\* and the allocation may fail.
panicFmt(msg) ==
    \/ /\ panicType' = "PANIC_INFLIGHT_OOM"
       /\ UNCHANGED panicMsg
    \/ /\ panicType' = "PANIC_MSG"
       /\ panicMsg' = msg

\* panicIncompatibleFieldType(vm, fieldSemaTypeId, rightv), vm.c lines 476-486;
\* the message is written here without the two type names.
panicIncompatibleFieldType(fieldSemaTypeId, rightv) ==
    /\ panicFmt("Assigning to member with incompatible type.")
    /\ Live(Heap, rightv)
    /\ SetHeap(release(Heap, rightv))

\* History of SetCheckFieldRelease: the record of Before and the object fields
\* before the instruction.
BeforeField(op, ins, path) == [fields |-> fields] @@ Before(op, ins, path)

\* Variant: the value is stored before its type is tested.
SetCheckFieldRelease_storesFirst(ins) ==
    /\ Running
    /\ At(ins, 0) = CodeSetCheckFieldRelease
    /\ VALUE_IS_POINTER(regs[stack + At(ins, 1)])
    /\ LET recv   == regs[stack + At(ins, 1)]
           val    == regs[stack + At(ins, 2)]
           obj    == VALUE_AS_HEAPOBJECT(recv)
           offset == getFieldOffset(obj, At(ins, 3))
       IN  /\ Live(Heap, recv)
           /\ offset # NULL_U8
           /\ fields' = SetObjectField(obj, offset, val)
           /\ IF ~isTypeSymCompat(VmTypeSymId(getTypeId(val)),
                                  mruFieldTypeSymId(HeadTypeId(obj), At(ins, 3)))
              THEN /\ panicIncompatibleFieldType(
                          mruFieldTypeSymId(HeadTypeId(obj), At(ins, 3)), val)
                   /\ RETURN("RES_CODE_PANIC", pc, stack)
                   /\ last' = BeforeField("SetCheckFieldRelease", ins, "incompatible")
              ELSE /\ Live(Heap, objectGetField(obj, offset))
                   /\ SetHeap(release(Heap, objectGetField(obj, offset)))
                   /\ NEXT(pc + 7, stack)
                   /\ last' = BeforeField("SetCheckFieldRelease", ins, "stored")
                   /\ UNCHANGED panicVars
    /\ inst' = <<>>
    /\ UNCHANGED <<regs, frames, valueVars, fiberVars, instBuf>>

\* CASE(SetCheckFieldRelease), vm.c lines 1461-1494
SetCheckFieldRelease(ins) ==
    /\ Running
    /\ At(ins, 0) = CodeSetCheckFieldRelease
    /\ LET recv  == regs[stack + At(ins, 1)]
           val   == regs[stack + At(ins, 2)]
           symId == At(ins, 3)
       IN  IF VALUE_IS_POINTER(recv)
           THEN LET obj    == VALUE_AS_HEAPOBJECT(recv)
                    offset == getFieldOffset(obj, symId)
                IN  /\ Live(Heap, recv)
                    /\ IF offset # NULL_U8
                       THEN LET fieldSemaTypeId == mruFieldTypeSymId(HeadTypeId(obj), symId)
                                rightTypeId     == getTypeId(val)
                                rightSemaTypeId == VmTypeSymId(rightTypeId)
                                h1 == release(Heap, objectGetField(obj, offset))
                            IN  IF ~isTypeSymCompat(rightSemaTypeId, fieldSemaTypeId)
                                THEN /\ panicIncompatibleFieldType(fieldSemaTypeId, val)
                                     /\ RETURN("RES_CODE_PANIC", pc, stack)
                                     /\ last' = BeforeField("SetCheckFieldRelease", ins,
                                                       "incompatible")
                                     /\ UNCHANGED fields
                                ELSE /\ Live(Heap, objectGetField(obj, offset))
                                     /\ Live(h1, recv)
                                     /\ SetHeap(h1)
                                     /\ fields' = SetObjectField(obj, offset, val)
                                     /\ NEXT(pc + 7, stack)
                                     /\ last' = BeforeField("SetCheckFieldRelease", ins, "stored")
                                     /\ UNCHANGED panicVars
                       ELSE /\ RETURN("RES_CODE_UNKNOWN", pc, stack)
                            /\ last' = BeforeField("SetCheckFieldRelease", ins, "unknown")
                            /\ UNCHANGED <<heapVars, fields, panicVars>>
           ELSE /\ RETURN("RES_CODE_UNKNOWN", pc, stack)
                /\ last' = BeforeField("SetCheckFieldRelease", ins, "unknown")
                /\ UNCHANGED <<heapVars, fields, panicVars>>
    /\ inst' = <<>>
    /\ UNCHANGED <<regs, frames, valueVars, fiberVars, instBuf>>

(***************************************************************************)
(* SpecSetCheck: SetCheckFieldRelease of register 1 to a field of the      *)
(* receiver in register 0, followed by a Jump back to it.                  *)
(***************************************************************************)
SetCheckMenu == { <<CodeSetCheckFieldRelease, 0, 1, sym, 0, 0, 0>> : sym \in {0, 1} }

SetCheckValues ==
    {VALUE_NONE, VALUE_NUMBER(Num(1)), VALUE_NUMBER(Num(2))} \cup { VALUE_PTR(o) : o \in Objs }

InitSetCheck ==
    /\ LoopIdle
    /\ ValueIdle
    /\ FiberIdle
    /\ pc = instPtr
    /\ stack = 0
    /\ frames = <<>>
    /\ \E ins \in SetCheckMenu : instBuf = Looped(ins)
    /\ fields = [o \in Objs |-> <<VALUE_PTR((o % NumObjs) + 1), VALUE_NUMBER(Num(1))>>]
    /\ rc \in [Objs -> 2 .. MaxRc]
    /\ \E recv \in ICReceivers, val \in SetCheckValues :
          regs = [i \in 0 .. StackLen - 1 |->
                     CASE i = 0 -> recv
                       [] i = 1 -> val
                       [] OTHER -> VALUE_NONE]

NextSetCheck ==
    \/ \E ins \in Loaded(7) : SetCheckFieldRelease(ins)
    \/ \E ins \in Loaded(3) : Jump(ins)

SpecSetCheck == InitSetCheck /\ [][NextSetCheck]_vars

(***************************************************************************)
(* Properties of SetCheckFieldRelease (checked under SpecSetCheck).        *)
(***************************************************************************)
\* The receiver, the value and the field of the SetCheckFieldRelease
\* dispatched last, which has found the field
SetCheckFound ==
    /\ last.op = "SetCheckFieldRelease"
    /\ VALUE_IS_POINTER(LastReceiver)
    /\ getFieldOffset(VALUE_AS_HEAPOBJECT(LastReceiver), At(last.ins, 3)) # NULL_U8

SetCheckValue == last.regs[last.stack + At(last.ins, 2)]

SetCheckOffset == getFieldOffset(VALUE_AS_HEAPOBJECT(LastReceiver), At(last.ins, 3))

SetCheckCompatible ==
    isTypeSymCompat(VmTypeSymId(getTypeId(SetCheckValue)),
                    mruFieldTypeSymId(HeadTypeId(VALUE_AS_HEAPOBJECT(LastReceiver)),
                                      At(last.ins, 3)))

\* C33: SetCheckFieldRelease stores the value only if its sema type is
\* compatible with the sema type the field is declared with.  When it is
\* not, the loop returns PANIC with a formatted panic on the current fiber
\* (or PANIC_INFLIGHT_OOM when the message cannot be allocated), the field
\* keeps its old value, and the old value is not released: the one release is
\* that of the value that was to be assigned.
C33_SetCheckFieldRelease ==
    SetCheckFound =>
        IF SetCheckCompatible
        THEN /\ res = "RUNNING"
             /\ pc = last.pc + 7
             /\ fields = [last.fields EXCEPT
                              ![VALUE_AS_HEAPOBJECT(LastReceiver)][SetCheckOffset + 1]
                                  = SetCheckValue]
             /\ rc = release([rc |-> last.rc, freeCount |-> last.freeCount],
                             last.fields[VALUE_AS_HEAPOBJECT(LastReceiver)][SetCheckOffset + 1]).rc
        ELSE /\ res = "RES_CODE_PANIC"
             /\ panicType \in {"PANIC_MSG", "PANIC_INFLIGHT_OOM"}
             /\ panicType = "PANIC_MSG" =>
                   panicMsg = "Assigning to member with incompatible type."
             /\ fields = last.fields
             /\ rc = release([rc |-> last.rc, freeCount |-> last.freeCount],
                             SetCheckValue).rc
             /\ pc = last.pc

\* An incompatible value was refused: the field still holds an object, whose
\* count has not changed.
C33_Witness ==
    /\ SetCheckFound
    /\ ~SetCheckCompatible
    /\ res = "RES_CODE_PANIC"
    /\ panicType = "PANIC_MSG"
    /\ VALUE_IS_POINTER(last.fields[VALUE_AS_HEAPOBJECT(LastReceiver)][SetCheckOffset + 1])
    /\ SetCheckValue # last.fields[VALUE_AS_HEAPOBJECT(LastReceiver)][SetCheckOffset + 1]
    /\ fields = last.fields
    /\ rc[VALUE_AS_HEAPOBJECT(fields[VALUE_AS_HEAPOBJECT(LastReceiver)][SetCheckOffset + 1])]
          = last.rc[VALUE_AS_HEAPOBJECT(fields[VALUE_AS_HEAPOBJECT(LastReceiver)][SetCheckOffset + 1])]

(***************************************************************************)
(* The bounds of the try-stack (checked under SpecTry).                    *)
(***************************************************************************)
\* Every frame below the length of try-stack t was stored by a PushTry.
FramesWritten(t) ==
    \A i \in 1 .. t.len : i <= Len(t.buf) /\ t.buf[i] # Uninit

\* C34 as stated: in every reachable state the length of the try-stack is at
\* most its capacity and every frame below the length was written by a
\* PushTry, so that every PushTry writes its frame inside the allocated
\* buffer.
C34_AsStated ==
    /\ tryStack.len <= tryStack.cap
    /\ FramesWritten(tryStack)
    /\ (last.op = "PushTry" /\ last.path = "pushed") => last.try.len < tryStack.cap

\* C34 while no PopTry has disturbed the try-stack: the frames below the
\* length are the frames pushed and not yet consumed.
C34_UntouchedByPopTry ==
    TryFramesOf(tryStack) = handlers =>
        /\ tryStack.len <= tryStack.cap
        /\ FramesWritten(tryStack)

\* A PushTry has stored its frame past the capacity of the buffer.
C34_PushPastCapacity ==
    /\ last.op = "PushTry"
    /\ last.path = "pushed"
    /\ last.try.len > last.try.cap
    /\ tryStack.len > tryStack.cap

(***************************************************************************)
(* The cached and the generic field read (checked under SpecIC).           *)
(***************************************************************************)
\* What the generic path reads for the last instruction's receiver and
\* symbol: the field at the offset of the runtime offset table.
GenericFieldValue ==
    fields[VALUE_AS_HEAPOBJECT(LastReceiver)][LastFieldOffset + 1]

\* The last instruction was a Field or FieldIC that read a field of an
\* object through the offset table or through its cache.
FieldRead ==
    /\ last.op \in {"Field", "FieldIC"}
    /\ last.path \in {"found", "cached"}

C35_CachedWitness ==
    /\ last.op = "FieldIC"
    /\ last.path = "cached"
    /\ LastCachedType = HeadTypeId(2)
    /\ At(last.ins, 7) = 1

(***************************************************************************)
(* Integer opcodes: ConstI8Int, AddInt, SubInt.                            *)
(***************************************************************************)
CodeConstI8Int == 2
CodeAddInt == 86
CodeSubInt == 87

\* The int32 n + 2^32 * k that lies in the int32 range, for the sum or the
\* difference of two int32: the two's-complement wrap.
I32AddWrap(a, b) ==
    IF a > 0 /\ b > INT32_MAX - a THEN (a + INT32_MIN) + (b + INT32_MIN)
    ELSE IF a < 0 /\ b < INT32_MIN - a THEN ((a + INT32_MAX) + 1) + ((b + INT32_MAX) + 1)
    ELSE a + b

I32SubWrap(a, b) ==
    IF a >= 0 /\ b < 0 /\ a > INT32_MAX + b THEN (a + INT32_MIN) - ((b + INT32_MAX) + 1)
    ELSE IF a < 0 /\ b > 0 /\ a < INT32_MIN + b THEN ((a + INT32_MAX) + 1) - (b + INT32_MIN)
    ELSE a - b

\* a + b on int operands: the overflow of a signed addition is undefined.
I32Add(a, b) ==
    IF (a > 0 /\ b > INT32_MAX - a) \/ (a < 0 /\ b < INT32_MIN - a)
    THEN {I32AddWrap(a, b)} \cup UndefinedInt32
    ELSE {a + b}

\* a - b on int operands
I32Sub(a, b) ==
    IF (a >= 0 /\ b < 0 /\ a > INT32_MAX + b) \/ (a < 0 /\ b > 0 /\ a < INT32_MIN + b)
    THEN {I32SubWrap(a, b)} \cup UndefinedInt32
    ELSE {a - b}

\* CASE(ConstI8Int), vm.c lines 662-665: pc[1] is a uint8_t
ConstI8Int(ins) ==
    /\ Running
    /\ At(ins, 0) = CodeConstI8Int
    /\ regs' = [regs EXCEPT ![stack + At(ins, 2)] = VALUE_INTEGER(At(ins, 1))]
    /\ NEXT(pc + 3, stack)
    /\ last' = Before("ConstI8Int", ins, "const")
    /\ inst' = <<>>
    /\ UNCHANGED <<panicVars, heapVars, frames, valueVars, progVars, fiberVars>>

\* CASE(AddInt), vm.c lines 1820-1826
AddInt(ins) ==
    /\ Running
    /\ At(ins, 0) = CodeAddInt
    /\ LET left  == regs[stack + At(ins, 1)]
           right == regs[stack + At(ins, 2)]
       IN  \E n \in I32Add(VALUE_AS_INTEGER(left), VALUE_AS_INTEGER(right)) :
              regs' = [regs EXCEPT ![stack + At(ins, 3)] = VALUE_INTEGER(n)]
    /\ NEXT(pc + 4, stack)
    /\ last' = Before("AddInt", ins, "int")
    /\ inst' = <<>>
    /\ UNCHANGED <<panicVars, heapVars, frames, valueVars, progVars, fiberVars>>

\* CASE(SubInt), vm.c lines 1827-1833
SubInt(ins) ==
    /\ Running
    /\ At(ins, 0) = CodeSubInt
    /\ LET left  == regs[stack + At(ins, 1)]
           right == regs[stack + At(ins, 2)]
       IN  \E n \in I32Sub(VALUE_AS_INTEGER(left), VALUE_AS_INTEGER(right)) :
              regs' = [regs EXCEPT ![stack + At(ins, 3)] = VALUE_INTEGER(n)]
    /\ NEXT(pc + 4, stack)
    /\ last' = Before("SubInt", ins, "int")
    /\ inst' = <<>>
    /\ UNCHANGED <<panicVars, heapVars, frames, valueVars, progVars, fiberVars>>

\* The value with the integer tag and the 32-bit payload of n.
IntegerTagged(n) ==
    WordOr(INTEGER_MASK, <<0, 0, WordOfInt32(n)[3], WordOfInt32(n)[4]>>)

\* v carries the integer tag: it is neither a pointer nor a number and its
\* tag bits are TAG_INTEGER.
IsIntegerTagged(v) ==
    WordAnd(v, WordOr(TAGGED_PRIMITIVE_MASK, SIGN_MASK)) = INTEGER_MASK

IntPayloads == {INT32_MIN, INT32_MAX} \cup ((0 - 2) .. 2)
IntBytes == {0, 1, 255}

\* A program: a ConstI8Int into register 1, then up to two of AddInt and
\* SubInt on registers 0 and 1 into register 0 or 2.
IntInsts ==
    { <<code, 0, 1, dst>> : code \in {CodeAddInt, CodeSubInt}, dst \in {0, 2} }

IntPrograms ==
    { pre \o Flatten(ops) :
          pre \in {<<>>} \cup { <<CodeConstI8Int, b, 1>> : b \in IntBytes },
          ops \in SeqsUpTo(IntInsts, 2) }

InitInt ==
    /\ LoopIdle
    /\ FiberIdle
    /\ ValueIdle
    /\ fields = [o \in Objs |-> <<>>]
    /\ pc = instPtr
    /\ stack = 0
    /\ frames = <<>>
    /\ rc = [o \in Objs |-> 1]
    /\ instBuf \in IntPrograms
    /\ \E a \in IntPayloads, b \in IntPayloads :
          regs = [i \in 0 .. StackLen - 1 |->
                     CASE i = 0 -> IntegerTagged(a)
                       [] i = 1 -> IntegerTagged(b)
                       [] OTHER -> VALUE_NONE]

NextInt ==
    \/ \E ins \in Loaded(3) : ConstI8Int(ins)
    \/ \E ins \in Loaded(4) : AddInt(ins)
    \/ \E ins \in Loaded(4) : SubInt(ins)

SpecInt == InitInt /\ [][NextInt]_vars

(***************************************************************************)
(* Properties of the integer opcodes (checked under SpecInt).              *)
(***************************************************************************)
IntLeft  == VALUE_AS_INTEGER(last.regs[last.stack + At(last.ins, 1)])
IntRight == VALUE_AS_INTEGER(last.regs[last.stack + At(last.ins, 2)])
IntDst   == regs[last.stack + At(last.ins, IF last.op = "ConstI8Int" THEN 2 ELSE 3)]

\* Both operands of the last AddInt or SubInt carried the integer tag.
IntOperandsTagged ==
    /\ last.op \in {"AddInt", "SubInt"}
    /\ IsIntegerTagged(last.regs[last.stack + At(last.ins, 1)])
    /\ IsIntegerTagged(last.regs[last.stack + At(last.ins, 2)])

\* The wrapped sum or difference of the last operands.
IntWrapped ==
    IF last.op = "AddInt" THEN I32AddWrap(IntLeft, IntRight)
    ELSE I32SubWrap(IntLeft, IntRight)

\* The exact sum or difference lies in the int32 range.
IntExact ==
    IF last.op = "AddInt" THEN I32Add(IntLeft, IntRight) = {IntWrapped}
    ELSE I32Sub(IntLeft, IntRight) = {IntWrapped}

\* C36 as stated: AddInt and SubInt on two integer-tagged values produce an
\* integer-tagged value (not a pointer, not a number) whose 32-bit payload is
\* the two's-complement wrapped sum or difference, negative results
\* included; ConstI8Int produces an integer-tagged value.
C36_AsStated ==
    /\ IntOperandsTagged =>
          /\ IsIntegerTagged(IntDst)
          /\ VALUE_AS_INTEGER(IntDst) = IntWrapped
    /\ last.op = "ConstI8Int" => IsIntegerTagged(IntDst)

\* What the code does: a sum or difference in 0 .. INT32_MAX is stored with
\* the integer tag; a negative one in the int32 range is stored sign-extended
\* over the tag bits, which reads as a pointer, with the right low 32 bits;
\* ConstI8Int stores the unsigned byte with the integer tag.
C36_NonNegativeTagged ==
    /\ (IntOperandsTagged /\ IntExact) =>
          /\ VALUE_AS_INTEGER(IntDst) = IntWrapped
          /\ IF IntWrapped >= 0 THEN IsIntegerTagged(IntDst)
             ELSE VALUE_IS_POINTER(IntDst) /\ IntDst[1] = 65535 /\ IntDst[2] = 65535
    /\ last.op = "ConstI8Int" =>
          /\ IsIntegerTagged(IntDst)
          /\ VALUE_AS_INTEGER(IntDst) = At(last.ins, 1)
          /\ pc = last.pc + 3

\* 1 - 2 on integer-tagged operands: the result reads as a pointer.
C36_NegativeResult ==
    /\ last.op = "SubInt"
    /\ IntOperandsTagged
    /\ IntLeft = 1
    /\ IntRight = 2
    /\ VALUE_IS_POINTER(IntDst)

(***************************************************************************)
(* Termination of the range loop.  The dispatch loop executes the          *)
(* instruction at pc whenever there is one: SpecRangeLive is SpecRange     *)
(* with weak fairness of the loop's step.                                  *)
(***************************************************************************)
SpecRangeLive == SpecRange /\ WF_vars(NextRange)

\* ForRangeInit has entered the body: start and end differ.
RangeEntered ==
    /\ last.op = "ForRangeInit"
    /\ pc = last.pc + 8

\* Control is past the closing instruction of the loop.
RangeExited == pc = instPtr + Len(instBuf)

\* The step register of the loop, as ForRangeInit left it
RangeStepNow == VALUE_AS_NUMBER(regs[5])

\* C37 as stated: a range loop entered through ForRangeInit with start # end
\* terminates for every start, end and step, step 0 and negative steps
\* included, the body (one Jump) leaving the loop's registers alone.
C37_AsStated == [](RangeEntered => <>RangeExited)

\* What the code does: the loop entered with a step other than 0 terminates.
C37_NonZeroStep == []((RangeEntered /\ NumVal(RangeStepNow) # 0) => <>RangeExited)

\* A closing instruction has gone back to the body with the counter it
\* found: the step is 0 and the loop makes no progress.
C37_ZeroStepLoops ==
    /\ last.op \in {"ForRange", "ForRangeReverse"}
    /\ last.path = "loop"
    /\ regs = last.regs
    /\ NumVal(RangeStepNow) = 0

(***************************************************************************)
(* The for loops of Init and ReleaseN, one iteration at a step.  Both run  *)
(* a uint8_t i up to a bound computed in int: i += 1 wraps from 255 to 0.  *)
(* The registers past StackLen are taken to hold none.                     *)
(***************************************************************************)
CodeInit == 53

\* stack[k] of the whole value stack
StackAt(k) == IF k < StackLen THEN regs[k] ELSE VALUE_NONE

\* stack[k] = val
StackPut(k, val) == IF k < StackLen THEN [regs EXCEPT ![k] = val] ELSE regs

\* i += 1 on a uint8_t
U8Inc(i) == (i + 1) % 256

\* CASE(Init), vm.c lines 1360-1369: the first step sets i = start, every
\* further step is one test of i < start + numLocals with the body and
\* i += 1, or the exit with pc += 3.
InitLocals(ins) ==
    /\ Running
    /\ At(ins, 0) = CodeInit
    /\ LET start     == At(ins, 1)
           numLocals == At(ins, 2)
       IN  IF forI = NoIndex
           THEN /\ forI' = start
                /\ last' = Before("Init", ins, "loop")
                /\ NEXT(pc, stack)
                /\ UNCHANGED regs
           ELSE IF forI < start + numLocals
           THEN /\ regs' = StackPut(stack + forI, VALUE_NONE)
                /\ forI' = U8Inc(forI)
                /\ NEXT(pc, stack)
                /\ UNCHANGED last
           ELSE /\ forI' = NoIndex
                /\ NEXT(pc + 3, stack)
                /\ last' = [last EXCEPT !.path = "done"]
                /\ UNCHANGED regs
    /\ inst' = <<>>
    /\ UNCHANGED <<panicVars, heapVars, frames, intIn, intVal, intOut, progVars, fiberVars>>

\* CASE(ReleaseN), vm.c lines 852-860, for every numLocals: the first step
\* sets i = 2, every further step is one test of i < 2 + numLocals with
\* release(vm, stack[pc[i]]) and i += 1, or the exit with pc += 2 + numLocals.
ReleaseNLoop(ins) ==
    /\ Running
    /\ At(ins, 0) = CodeReleaseN
    /\ Len(ins) = 2 + At(ins, 1)
    /\ LET numLocals == At(ins, 1)
       IN  IF forI = NoIndex
           THEN /\ forI' = 2
                /\ last' = Before("ReleaseN", ins, "loop")
                /\ NEXT(pc, stack)
                /\ UNCHANGED heapVars
           ELSE IF forI < 2 + numLocals
           THEN /\ \E h0 \in Deref(Heap, StackAt(stack + At(ins, forI))) :
                      SetHeap(release(h0, StackAt(stack + At(ins, forI))))
                /\ forI' = U8Inc(forI)
                /\ NEXT(pc, stack)
                /\ UNCHANGED last
           ELSE /\ forI' = NoIndex
                /\ NEXT(pc + 2 + numLocals, stack)
                /\ last' = [last EXCEPT !.path = "done"]
                /\ UNCHANGED heapVars
    /\ inst' = <<>>
    /\ UNCHANGED <<regs, panicVars, frames, intIn, intVal, intOut, progVars, fiberVars>>

InitStarts == {0, 2, 250, 255}
InitCounts == {0, 1, 5, 6}
ReleaseNCounts == {0, 1, 2, 254}

\* ReleaseN of n registers: a, b and then register 2 throughout.  The
\* instruction of 254 registers lists register 2 only, which holds no pointer.
ReleaseNInst(n, a, b) ==
    <<CodeReleaseN, n>> \o [k \in 1 .. n |-> IF k = 1 THEN a ELSE IF k = 2 THEN b ELSE 2]

LoopPrograms ==
    { <<CodeInit, start, n>> : start \in InitStarts, n \in InitCounts }
    \cup { ReleaseNInst(n, a, b) : n \in ReleaseNCounts \ {254}, a \in {0, 1}, b \in {0, 1} }
    \cup { ReleaseNInst(254, 2, 2) }

InitLoops ==
    /\ LoopIdle
    /\ FiberIdle
    /\ ValueIdle
    /\ fields = [o \in Objs |-> <<>>]
    /\ pc = instPtr
    /\ stack = 0
    /\ frames = <<>>
    /\ rc \in [Objs -> {1, 2}]
    /\ instBuf \in LoopPrograms
    /\ \E a \in RcValues, b \in RcValues :
          regs = [i \in 0 .. StackLen - 1 |->
                     IF i = 0 THEN a ELSE IF i = 1 THEN b ELSE VALUE_TRUE]

NextLoops ==
    \/ \E ins \in Loaded(3) : InitLocals(ins)
    \/ \E n \in ReleaseNCounts : \E ins \in Loaded(2 + n) : ReleaseNLoop(ins)

SpecLoops == InitLoops /\ [][NextLoops]_vars

\* The dispatch loop goes on with the handler it has entered.
SpecLoopsLive == SpecLoops /\ WF_vars(NextLoops)

(***************************************************************************)
(* Properties of Init and ReleaseN (checked under SpecLoops and            *)
(* SpecLoopsLive).                                                         *)
(***************************************************************************)
\* The int bound of the for loop in progress or finished last
LoopBound ==
    IF last.op = "Init" THEN At(last.ins, 1) + At(last.ins, 2)
    ELSE 2 + At(last.ins, 1)

\* The number of the ReleaseN's operands that hold a pointer to object o
RECURSIVE Listed(_, _)
Listed(o, k) ==
    IF k < 2 THEN 0
    ELSE Listed(o, k - 1)
         + (IF StackAt(last.stack + At(last.ins, k)) = VALUE_PTR(o) THEN 1 ELSE 0)

\* Init has written none to the registers start .. start + numLocals - 1
\* and to no other, and pc is past its 3 bytes.
InitExact ==
    /\ pc = last.pc + 3
    /\ \A k \in 0 .. StackLen - 1 :
          regs[k] = IF k >= At(last.ins, 1) /\ k < LoopBound THEN VALUE_NONE
                    ELSE last.regs[k]

\* ReleaseN has released every listed register once, where the object had
\* that many references, and pc is past its 2 + numLocals bytes.
ReleaseNExact ==
    /\ pc = last.pc + 2 + At(last.ins, 1)
    /\ \A o \in Objs :
          LET n == Listed(o, 1 + At(last.ins, 1))
          IN  n <= last.rc[o] =>
                 /\ rc[o] = last.rc[o] - n
                 /\ freeCount[o] = IF n > 0 /\ rc[o] = 0 THEN 1 ELSE 0

LoopExact ==
    last.path = "done" => IF last.op = "Init" THEN InitExact ELSE ReleaseNExact

\* C38 as stated: Init and ReleaseN terminate for every 8-bit operand value,
\* also when start + numLocals or 2 + numLocals exceeds 255, Init having
\* written none to exactly its registers with pc += 3, ReleaseN having
\* released exactly the listed registers once each with pc += 2 + numLocals.
C38_AsStated ==
    /\ [](forI # NoIndex => <>(forI = NoIndex))
    /\ []LoopExact

\* What the code does: the loops whose bound is at most 255 terminate.
C38_TerminatesBelow256 ==
    []((forI # NoIndex /\ LoopBound <= 255) => <>(forI = NoIndex))

\* ... and when they have, they have written or released exactly their registers.
C38_ExactWhenDone == LoopExact

\* The index of Init has wrapped: the loop is at a register below start.
C38_InitWrapped ==
    /\ last.op = "Init"
    /\ forI # NoIndex
    /\ forI < At(last.ins, 1)
    /\ LoopBound > 255

\* The index of ReleaseN has wrapped and the loop has released the register
\* its own opcode byte names.
C38_ReleaseNWrapped ==
    /\ last.op = "ReleaseN"
    /\ forI = 1
    /\ LoopBound > 255

(***************************************************************************)
(* The resume chain (checked under SpecFiber): the fibers from the current *)
(* one along the parent links that Coresume sets.                          *)
(***************************************************************************)
\* The fibers met from f along at most n parent links of fs, the main fiber
\* ending the walk
RECURSIVE ResumeChain(_, _, _)
ResumeChain(fs, f, n) ==
    IF f = 0 \/ n = 0 THEN {f}
    ELSE {f} \cup ResumeChain(fs, fs[f].parent, n - 1)

\* The walk from the current fiber meets the main fiber: no fiber of the
\* chain is its own ancestor.
ChainAcyclic == 0 \in ResumeChain(fibers, curFiber, NumObjs)

\* C39 as stated: the resume chain is acyclic, a Coresume never switches to
\* a fiber that is suspended inside the current resume chain, and so the
\* Coyields and Coreturns of the chain lead back to the main fiber.
C39_AsStated ==
    /\ ChainAcyclic
    /\ (last.op = "Coresume" /\ last.path = "switch") =>
          curFiber \notin ResumeChain(last.fibers, last.cur, NumObjs)

\* What the code excludes: a Coresume switches to no fiber that is current
\* or finished, and the fiber it switches to gets the resumer as its parent,
\* whatever parent it had.
C39_OnlySelfExcluded ==
    (last.op = "Coresume" /\ last.path = "switch") =>
        /\ curFiber # last.cur
        /\ ~Finished(last.fibers, curFiber)
        /\ fibers[curFiber].parent = last.cur

\* Two fibers are each other's parent: the inner fiber has resumed the outer
\* one, which was suspended in its Coresume of the inner fiber.
C39_ResumeCycle ==
    /\ last.op = "Coresume"
    /\ last.path = "switch"
    /\ curFiber # 0
    /\ last.cur # 0
    /\ last.fibers[last.cur].parent = curFiber
    /\ fibers[curFiber].parent = last.cur
    /\ ~ChainAcyclic

(***************************************************************************)
(* SpecShared: two fibers run the same range loop.  Fiber A's code is the  *)
(* loop, with a Coyield as its body, and Coreturn; fiber B's code is a     *)
(* Jump to the loop.  The main fiber creates A with the range in its       *)
(* registers 3 .. 5 and B with the range in 10 .. 12, and then resumes     *)
(* them in some order.  In a fiber the range arrives in registers 5 .. 7;  *)
(* register 8 is the counter and 9 the user binding.                       *)
(***************************************************************************)
SharedLoop(closing) ==
    <<CodeForRangeInit, 5, 6, 7, 8, 9>> \o U16Bytes(11)
    \o CoyieldInst
    \o <<closing, 8, 7, 6, 9>> \o U16Bytes(3)
    \o CoreturnInst

\* The address of the shared loop: after the Coinit of fiber A
SharedLoopAt == Len(CoinitInst(0))

SharedProgram(closing, resumes) ==
    <<CodeCoinit, 3, 3, 6 + Len(SharedLoop(closing)), 0, 0>>
    \o SharedLoop(closing)
    \o <<CodeCoinit, 10, 3, 9, 0, 1>>
    \o <<CodeJump>> \o I16Bytes(SharedLoopAt - (12 + Len(SharedLoop(closing))))
    \o Flatten(resumes)

SharedPrograms ==
    { SharedProgram(closing, resumes) :
          closing \in {CodeForRange, CodeForRangeReverse},
          resumes \in SeqsUpTo({CoresumeInst(0), CoresumeInst(1)}, MaxMain) }

SharedEnds == { Num(n) : n \in 0 .. 2 }

InitShared ==
    /\ LoopIdle
    /\ ValueIdle
    /\ fields = [o \in Objs |-> <<>>]
    /\ tryStack = [buf |-> <<>>, len |-> 0, cap |-> 0]
    /\ handlers = <<>>
    /\ seen = <<>>
    /\ curFiber = 0
    /\ fibers = [f \in 0 .. NumObjs |-> NoFiber]
    /\ varSyms = <<VALUE_TRUE>>
    /\ pc = instPtr
    /\ stack = 0
    /\ frames = <<>>
    /\ rc = [o \in Objs |-> 0]
    /\ instBuf \in SharedPrograms
    /\ \E startA \in SharedEnds, endA \in SharedEnds, startB \in SharedEnds, endB \in SharedEnds :
          regs = [i \in 0 .. StackLen - 1 |->
                     CASE i = 3 -> VALUE_NUMBER(startA)
                       [] i = 4 -> VALUE_NUMBER(endA)
                       [] i = 10 -> VALUE_NUMBER(startB)
                       [] i = 11 -> VALUE_NUMBER(endB)
                       [] i \in {5, 12} -> VALUE_NUMBER(Num(1))
                       [] OTHER -> VALUE_NONE]

NextShared ==
    \/ \E ins \in Loaded(6) : Coinit(ins)
    \/ \E ins \in Loaded(3) : Coyield(ins)
    \/ \E ins \in Loaded(3) : Coresume(ins)
    \/ \E ins \in Loaded(1) : Coreturn(ins)
    \/ \E ins \in Loaded(3) : Jump(ins)
    \/ \E ins \in Loaded(8) : ForRangeInit(ins)
    \/ \E ins \in Loaded(7) : ForRange(ins)
    \/ \E ins \in Loaded(7) : ForRangeReverse(ins)

SpecShared == InitShared /\ [][NextShared]_vars

(***************************************************************************)
(* Properties of the shared range loop (checked under SpecShared).         *)
(***************************************************************************)
\* The range of the activation that has dispatched the last instruction:
\* the start and the end in its own registers
OwnStart == VALUE_AS_NUMBER(last.regs[last.stack + 5])
OwnEnd   == VALUE_AS_NUMBER(last.regs[last.stack + 6])

\* The opcode byte of the loop's closing instruction in buffer b
ClosingByte(b) == b[SharedLoopAt + 11 + 1]

\* C40 as stated: the direction of a range loop is determined only by the
\* activation's own start and end: an activation whose start is below its end
\* closes its loop with ForRange, one whose start is above its end with
\* ForRangeReverse, whatever another activation of the same loop code,
\* suspended by a Coyield in the body or resumed meanwhile, has run.
C40_AsStated ==
    (last.op \in {"ForRange", "ForRangeReverse"}) =>
        (last.op = "ForRange" <=> DLess(OwnStart, OwnEnd))

\* What the code does: the closing instruction is the one that the
\* ForRangeInit dispatched last, by whichever activation, has written: a
\* ForRangeInit that enters the loop writes the direction of its own range to
\* the shared opcode byte, and no other instruction changes the buffer.
C40_LastInitDecides ==
    /\ (last.op = "ForRangeInit" /\ last.path = "loop") =>
          ClosingByte(Buffer) = IF DLess(OwnStart, OwnEnd) THEN CodeForRange
                                ELSE CodeForRangeReverse
    /\ (last.op # "ForRangeInit" /\ last.op # "none") => Buffer = last.buf

\* Fiber A, whose range goes up, has closed its loop with ForRangeReverse,
\* which fiber B's ForRangeInit wrote while A was suspended in the body, and
\* has left the loop after one entry of the body.
C40_DirectionChanged ==
    /\ last.op = "ForRangeReverse"
    /\ last.path = "exit"
    /\ curFiber = 1
    /\ NumVal(OwnEnd) - NumVal(OwnStart) = 2

====
